---- MODULE Spec2Model ----
(***************************************************************************)
(* A model of the posting-list algebra (UnionAllDocSet, UnionDocSet,       *)
(* DifferenceDocSet, AllScorer) and of the facet collector (FacetCollector,*)
(* FacetCounts, FacetIterator) of tantivy.                                 *)
(***************************************************************************)
EXTENDS Integers, Sequences, FiniteSets, TLC

VARIABLES
    kind,    \* which object the behaviour drives: "union_all", "union", "difference", "all", "facet"
    ds,      \* the DocSet under test (its fields, children included)
    op,      \* the last DocSet operation: "new", "advance", "skip_next"
    arg,     \* the target of the last skip_next (0 otherwise)
    res,     \* what the last operation returned: "True"/"False", "Reached"/"OverStep"/"End"
    pre,     \* what was observable just before the last operation
    trace,   \* the docs reported by advance() since construction, while no skip_next was called
    collector,     \* the FacetCollector, <<>> once harvest() consumed it
    facet_counts,  \* the FacetCounts view under examination, <<>> before harvest()
    facet_iter,    \* the FacetIterator of that view, <<>> while there is none
    yielded,       \* the (facet, count) items the iterator returned, in order
    obj,     \* the object under test of the other subsystems (its fields), <<>> while there is none
    obs      \* what the calls on obj returned or emitted, in order

dsVars == <<ds, op, arg, res, pre, trace>>

facetVars == <<collector, facet_counts, facet_iter, yielded>>

objVars == <<obj, obs>>

vars == <<kind, ds, op, arg, res, pre, trace, collector, facet_counts, facet_iter, yielded, obj, obs>>

----------------------------------------------------------------------------
(* Bounds *)

\* Doc ids range over 0..MaxDoc.
MaxDoc == 2

Docs == 0 .. MaxDoc

\* The numbers of children a union is built from (the constructor asserts >= 2).
ChildCounts == {2, 3}

----------------------------------------------------------------------------
(* Helpers *)

SetMin(S) == CHOOSE m \in S : \A x \in S : m <= x

RECURSIVE SortedSeq(_)
SortedSeq(S) == IF S = {} THEN <<>> ELSE <<SetMin(S)>> \o SortedSeq(S \ {SetMin(S)})

Range(s) == {s[i] : i \in DOMAIN s}

IsPrefix(s, t) == Len(s) <= Len(t) /\ \A i \in 1 .. Len(s) : s[i] = t[i]

----------------------------------------------------------------------------
(* A child DocSet: an ascending duplicate-free list of doc ids with a      *)
(* cursor (0: before the first advance; Len + 1: exhausted).               *)

VecPostings(ids) == [ids |-> ids, cursor |-> 0]

VecAdvance(p) == [p EXCEPT !.cursor = IF @ > Len(p.ids) THEN @ ELSE @ + 1]

VecValid(p) == p.cursor >= 1 /\ p.cursor <= Len(p.ids)

VecDoc(p) == p.ids[p.cursor]

RECURSIVE VecSkipLoop(_, _)
VecSkipLoop(p, target) ==
    IF VecDoc(p) < target
    THEN LET q == VecAdvance(p)
         IN  IF VecValid(q) THEN VecSkipLoop(q, target) ELSE [ds |-> q, res |-> "End"]
    ELSE IF VecDoc(p) = target
         THEN [ds |-> p, res |-> "Reached"]
         ELSE [ds |-> p, res |-> "OverStep"]

\* DocSet::skip_next: advance until the first doc >= target.
VecSkipNext(p, target) ==
    LET q == VecAdvance(p)
    IN  IF VecValid(q) THEN VecSkipLoop(q, target) ELSE [ds |-> q, res |-> "End"]

----------------------------------------------------------------------------
(* UnionAllDocSet *)

\* The queue holds one HeapItem per child that is not exhausted: the child's
\* current doc (the next doc the union will report for it) and the child's ordinal.
HeapItem(docsets, i) == [doc |-> VecDoc(docsets[i]), ord |-> i]

UnionAllFrom(docsets) ==
    LET advanced == [i \in DOMAIN docsets |-> VecAdvance(docsets[i])]
    IN  [docsets  |-> advanced,
         queue    |-> {HeapItem(advanced, i) : i \in {j \in DOMAIN advanced : VecValid(advanced[j])}},
         finished |-> FALSE,
         doc      |-> 0]

\* BinaryHeap::peek under HeapItem's ordering (reversed on doc): an item of
\* least doc; which one among equal docs is left to the heap's layout.
Heads(queue) == {it \in queue : \A o \in queue : it.doc <= o.doc}

AdvanceHead(u, head) ==
    LET docset == VecAdvance(u.docsets[head.ord])
        docsets == [u.docsets EXCEPT ![head.ord] = docset]
    IN  [u EXCEPT !.doc = head.doc,
                  !.docsets = docsets,
                  !.queue = IF VecValid(docset)
                            THEN (@ \ {head}) \cup {HeapItem(docsets, head.ord)}
                            ELSE @ \ {head}]

\* Mutant: advance() pops the head without advancing its child.
UnionAllAdvance_PopOnly(u) ==
    IF u.finished
    THEN {[ds |-> u, res |-> "False"]}
    ELSE IF u.queue = {}
         THEN {[ds |-> [u EXCEPT !.finished = TRUE], res |-> "False"]}
         ELSE {[ds |-> [u EXCEPT !.doc = h.doc, !.queue = @ \ {h}], res |-> "True"]
               : h \in Heads(u.queue)}

\* The outcomes of advance(): the set of [ds, res], one per choice of head.
UnionAllAdvance(u) ==
    IF u.finished
    THEN {[ds |-> u, res |-> "False"]}
    ELSE IF u.queue = {}
         THEN {[ds |-> [u EXCEPT !.finished = TRUE], res |-> "False"]}
         ELSE {[ds |-> AdvanceHead(u, h), res |-> "True"] : h \in Heads(u.queue)}

\* Mutant: skip_next() returns OverStep without moving to the head's doc.
UnionAllSkipNext_NoAdvanceHead(u, target) ==
    IF u.finished
    THEN {[ds |-> u, res |-> "End"]}
    ELSE LET behind == {it \in u.queue : it.doc < target}
             skipped == [i \in DOMAIN u.docsets |-> VecSkipNext(u.docsets[i], target)]
             docsets == [i \in DOMAIN u.docsets |->
                            IF \E it \in behind : it.ord = i THEN skipped[i].ds ELSE u.docsets[i]]
             items == (u.queue \ behind)
                      \cup {HeapItem(docsets, it.ord) : it \in {x \in behind : skipped[x.ord].res # "End"}}
             found == \E it \in items : it.doc = target
             u1 == [u EXCEPT !.docsets = docsets,
                             !.queue = items,
                             !.doc = IF found THEN target ELSE @]
         IN  IF items = {}
             THEN {[ds |-> [u1 EXCEPT !.finished = TRUE], res |-> "End"]}
             ELSE {[ds |-> u1, res |-> IF found THEN "Reached" ELSE "OverStep"]}

UnionAllSkipNext(u, target) ==
    IF u.finished
    THEN {[ds |-> u, res |-> "End"]}
    ELSE LET behind == {it \in u.queue : it.doc < target}
             skipped == [i \in DOMAIN u.docsets |-> VecSkipNext(u.docsets[i], target)]
             docsets == [i \in DOMAIN u.docsets |->
                            IF \E it \in behind : it.ord = i THEN skipped[i].ds ELSE u.docsets[i]]
             items == (u.queue \ behind)
                      \cup {HeapItem(docsets, it.ord) : it \in {x \in behind : skipped[x.ord].res # "End"}}
             found == \E it \in items : it.doc = target
             u1 == [u EXCEPT !.docsets = docsets,
                             !.queue = items,
                             !.doc = IF found THEN target ELSE @]
         IN  IF items = {}
             THEN {[ds |-> [u1 EXCEPT !.finished = TRUE], res |-> "End"]}
             ELSE IF found
                  THEN {[ds |-> u1, res |-> "Reached"]}
                  ELSE {[ds |-> AdvanceHead(u1, h), res |-> "OverStep"] : h \in Heads(items)}

UnionAllDoc(u) == u.doc

----------------------------------------------------------------------------
(* UnionDocSet: current is Option<DocId>, <<>> for None and <<d>> for Some(d). *)

UnionFrom(docsets) == [inner |-> UnionAllFrom(docsets), current |-> <<>>]

\* Mutant: advance() does not skip the children left on the doc just reported.
UnionAdvance_NoDedup(un) ==
    {[ds  |-> [inner |-> a.ds,
               current |-> IF a.res = "True" THEN <<UnionAllDoc(a.ds)>> ELSE un.current],
      res |-> a.res] : a \in UnionAllAdvance(un.inner)}

UnionAdvance(un) ==
    UNION {
        IF a.res = "False"
        THEN {[ds |-> [un EXCEPT !.inner = a.ds], res |-> "False"]}
        ELSE IF un.current = <<UnionAllDoc(a.ds)>>
             THEN {IF s.res = "End"
                   THEN [ds |-> [un EXCEPT !.inner = s.ds], res |-> "False"]
                   ELSE [ds |-> [inner |-> s.ds, current |-> <<UnionAllDoc(s.ds)>>], res |-> "True"]
                   : s \in UnionAllSkipNext(a.ds, UnionAllDoc(a.ds) + 1)}
             ELSE {[ds |-> [inner |-> a.ds, current |-> <<UnionAllDoc(a.ds)>>], res |-> "True"]}
        : a \in UnionAllAdvance(un.inner)}

UnionSkipNext(un, target) ==
    {[ds  |-> [inner |-> s.ds,
               current |-> IF s.res # "End" THEN <<UnionAllDoc(s.ds)>> ELSE un.current],
      res |-> s.res] : s \in UnionAllSkipNext(un.inner, target)}

UnionDoc(un) == UnionAllDoc(un.inner)

----------------------------------------------------------------------------
(* DifferenceDocSet *)

DifferenceNew(left, right) ==
    LET r == VecAdvance(right)
    IN  [left |-> left, right |-> r, right_finished |-> ~VecValid(r)]

\* Mutant: advance() reports a doc of left that right is on (<= for <).
RECURSIVE DifferenceAdvance_ReportsEqual(_)
DifferenceAdvance_ReportsEqual(d) ==
    LET l  == VecAdvance(d.left)
        d1 == [d EXCEPT !.left = l]
    IN  IF ~VecValid(l)
        THEN [ds |-> d1, res |-> "False"]
        ELSE IF d.right_finished \/ VecDoc(l) <= VecDoc(d.right)
        THEN [ds |-> d1, res |-> "True"]
        ELSE LET s  == VecSkipNext(d.right, VecDoc(l))
                 d2 == [d1 EXCEPT !.right = s.ds]
             IN  CASE s.res = "Reached"  -> DifferenceAdvance_ReportsEqual(d2)
                   [] s.res = "OverStep" -> [ds |-> d2, res |-> "True"]
                   [] s.res = "End"      -> [ds |-> [d2 EXCEPT !.right_finished = TRUE],
                                             res |-> "True"]

RECURSIVE DifferenceAdvance(_)
DifferenceAdvance(d) ==
    LET l  == VecAdvance(d.left)
        d1 == [d EXCEPT !.left = l]
    IN  IF ~VecValid(l)
        THEN [ds |-> d1, res |-> "False"]
        ELSE IF d.right_finished \/ VecDoc(l) < VecDoc(d.right)
        THEN [ds |-> d1, res |-> "True"]
        ELSE IF VecDoc(l) = VecDoc(d.right)
        THEN DifferenceAdvance(d1)
        ELSE LET s  == VecSkipNext(d.right, VecDoc(l))
                 d2 == [d1 EXCEPT !.right = s.ds]
             IN  CASE s.res = "Reached"  -> DifferenceAdvance(d2)
                   [] s.res = "OverStep" -> [ds |-> d2, res |-> "True"]
                   [] s.res = "End"      -> [ds |-> [d2 EXCEPT !.right_finished = TRUE],
                                             res |-> "True"]

\* Mutant: skip_next() reports OverStep when left has reached its end.
DifferenceSkipNext_EndIsOverStep(d, target) ==
    LET l  == VecSkipNext(d.left, target)
        d1 == [d EXCEPT !.left = l.ds]
    IN  IF l.res = "End"
        THEN [ds |-> d1, res |-> "OverStep"]
        ELSE IF d.right_finished \/ VecDoc(l.ds) < VecDoc(d.right)
        THEN [ds |-> d1, res |-> l.res]
        ELSE IF VecDoc(l.ds) = VecDoc(d.right)
        THEN LET l2 == VecAdvance(l.ds)
             IN  [ds |-> [d1 EXCEPT !.left = l2],
                  res |-> IF VecValid(l2) THEN "OverStep" ELSE "End"]
        ELSE LET s  == VecSkipNext(d.right, VecDoc(l.ds))
                 d2 == [d1 EXCEPT !.right = s.ds]
             IN  CASE s.res = "Reached"  ->
                        LET a == DifferenceAdvance(d2)
                        IN  [ds |-> a.ds, res |-> IF a.res = "True" THEN "OverStep" ELSE "End"]
                   [] s.res = "OverStep" -> [ds |-> d2, res |-> l.res]
                   [] s.res = "End"      -> [ds |-> [d2 EXCEPT !.right_finished = TRUE],
                                             res |-> l.res]

DifferenceSkipNext(d, target) ==
    LET l  == VecSkipNext(d.left, target)
        d1 == [d EXCEPT !.left = l.ds]
    IN  IF l.res = "End"
        THEN [ds |-> d1, res |-> "End"]
        ELSE IF d.right_finished \/ VecDoc(l.ds) < VecDoc(d.right)
        THEN [ds |-> d1, res |-> l.res]
        ELSE IF VecDoc(l.ds) = VecDoc(d.right)
        THEN LET l2 == VecAdvance(l.ds)
             IN  [ds |-> [d1 EXCEPT !.left = l2],
                  res |-> IF VecValid(l2) THEN "OverStep" ELSE "End"]
        ELSE LET s  == VecSkipNext(d.right, VecDoc(l.ds))
                 d2 == [d1 EXCEPT !.right = s.ds]
             IN  CASE s.res = "Reached"  ->
                        LET a == DifferenceAdvance(d2)
                        IN  [ds |-> a.ds, res |-> IF a.res = "True" THEN "OverStep" ELSE "End"]
                   [] s.res = "OverStep" -> [ds |-> d2, res |-> l.res]
                   [] s.res = "End"      -> [ds |-> [d2 EXCEPT !.right_finished = TRUE],
                                             res |-> l.res]

\* doc() is left.doc(); the model reads it only while left is on a doc.
DifferenceDoc(d) == VecDoc(d.left)

----------------------------------------------------------------------------
(* AllScorer *)

AllScorerNew(max_doc) == [started |-> FALSE, doc |-> 0, max_doc |-> max_doc]

\* Mutant: advance() never increments doc.
AllScorerAdvance_NoIncrement(a) ==
    LET a1 == [a EXCEPT !.started = TRUE]
    IN  [ds |-> a1, res |-> IF a1.doc < a1.max_doc THEN "True" ELSE "False"]

AllScorerAdvance(a) ==
    LET a1 == IF a.started THEN [a EXCEPT !.doc = @ + 1] ELSE [a EXCEPT !.started = TRUE]
    IN  [ds |-> a1, res |-> IF a1.doc < a1.max_doc THEN "True" ELSE "False"]

AllScorerDoc(a) == a.doc

----------------------------------------------------------------------------
(* The DocSet under test *)

DocLists == {SortedSeq(S) : S \in SUBSET Docs}

ChildLists == UNION {[1 .. n -> DocLists] : n \in ChildCounts}

\* The doc ids of the children of a union.
ChildDocs(u) == UNION {Range(u.docsets[i].ids) : i \in DOMAIN u.docsets}

\* doc() of the DocSet under test, as a sequence: <<>> where the code gives no
\* meaningful doc (a difference whose left is before its first doc or exhausted).
CurDoc ==
    CASE kind = "union_all"  -> <<UnionAllDoc(ds)>>
      [] kind = "union"      -> <<UnionDoc(ds)>>
      [] kind = "difference" -> IF VecValid(ds.left) THEN <<DifferenceDoc(ds)>> ELSE <<>>
      [] kind = "all"        -> <<AllScorerDoc(ds)>>
      [] OTHER               -> <<>>

\* Whether an earlier operation already returned false or End.
Live == res \notin {"False", "End"} /\ pre.live

Observe == [doc |-> CurDoc, live |-> Live, started |-> op # "new"]

NoTrace == [fresh |-> FALSE, docs |-> <<>>]

\* The variables of the other subsystems while the behaviour drives a DocSet
\* or the facet collector.
ObjIdle ==
    /\ obj = <<>>
    /\ obs = <<>>

\* The facet collector's variables while the behaviour drives a DocSet.
FacetIdle ==
    /\ collector = <<>>
    /\ facet_counts = <<>>
    /\ facet_iter = <<>>
    /\ yielded = <<>>

DocSetInit(k, d) ==
    /\ kind = k
    /\ ds = d
    /\ op = "new"
    /\ arg = 0
    /\ res = "None"
    /\ pre = [doc |-> <<>>, live |-> TRUE, started |-> FALSE]
    /\ trace = [fresh |-> TRUE, docs |-> <<>>]
    /\ FacetIdle
    /\ ObjIdle

\* The effect of an advance() whose outcome is o, with d the doc it reports.
Advanced(o, d) ==
    /\ ds' = o.ds
    /\ res' = o.res
    /\ op' = "advance"
    /\ arg' = 0
    /\ pre' = Observe
    /\ trace' = IF trace.fresh /\ o.res = "True"
                THEN [trace EXCEPT !.docs = Append(@, d)]
                ELSE trace
    /\ UNCHANGED <<kind, facetVars, objVars>>

Skipped(o, target) ==
    /\ ds' = o.ds
    /\ res' = o.res
    /\ op' = "skip_next"
    /\ arg' = target
    /\ pre' = Observe
    /\ trace' = NoTrace
    /\ UNCHANGED <<kind, facetVars, objVars>>

Targets == 0 .. MaxDoc + 1

UnionAllAdvanceStep ==
    /\ kind = "union_all"
    /\ \E o \in UnionAllAdvance(ds) : Advanced(o, UnionAllDoc(o.ds))

UnionAllSkipNextStep ==
    /\ kind = "union_all"
    /\ \E target \in Targets : \E o \in UnionAllSkipNext(ds, target) : Skipped(o, target)

UnionAdvanceStep ==
    /\ kind = "union"
    /\ \E o \in UnionAdvance(ds) : Advanced(o, UnionDoc(o.ds))

UnionSkipNextStep ==
    /\ kind = "union"
    /\ \E target \in Targets : \E o \in UnionSkipNext(ds, target) : Skipped(o, target)

DifferenceAdvanceStep ==
    /\ kind = "difference"
    /\ LET o == DifferenceAdvance(ds)
       IN  Advanced(o, IF o.res = "True" THEN DifferenceDoc(o.ds) ELSE 0)

DifferenceSkipNextStep ==
    /\ kind = "difference"
    /\ \E target \in Targets : Skipped(DifferenceSkipNext(ds, target), target)

\* doc grows by one per call also after exhaustion; the model stops at max_doc + 1.
AllScorerAdvanceStep ==
    /\ kind = "all"
    /\ ds.doc <= ds.max_doc
    /\ Advanced(AllScorerAdvance(ds), AllScorerAdvance(ds).ds.doc)

InitDocSet ==
    \/ \E c \in ChildLists :
          DocSetInit("union_all", UnionAllFrom([i \in DOMAIN c |-> VecPostings(c[i])]))
    \/ \E c \in ChildLists :
          DocSetInit("union", UnionFrom([i \in DOMAIN c |-> VecPostings(c[i])]))
    \/ \E l \in DocLists, r \in DocLists :
          DocSetInit("difference", DifferenceNew(VecPostings(l), VecPostings(r)))
    \/ \E m \in 0 .. MaxDoc + 1 : DocSetInit("all", AllScorerNew(m))

NextDocSet ==
    \/ UnionAllAdvanceStep
    \/ UnionAllSkipNextStep
    \/ UnionAdvanceStep
    \/ UnionSkipNextStep
    \/ DifferenceAdvanceStep
    \/ DifferenceSkipNextStep
    \/ AllScorerAdvanceStep

SpecDocSet == InitDocSet /\ [][NextDocSet]_vars

----------------------------------------------------------------------------
(* Claims about the DocSet combinators *)

StrictlyIncreasing(s) == \A i \in 1 .. Len(s) - 1 : s[i] < s[i + 1]

NonDecreasing(s) == \A i \in 1 .. Len(s) - 1 : s[i] <= s[i + 1]

Last(s) == s[Len(s)]

\* The number of children of union u that contain doc d.
Occurrences(u, d) == Cardinality({i \in DOMAIN u.docsets : d \in Range(u.docsets[i].ids)})

RECURSIVE Repeat(_, _)
Repeat(d, n) == IF n = 0 THEN <<>> ELSE <<d>> \o Repeat(d, n - 1)

\* The docs of S ascending, each as many times as children of u contain it.
RECURSIVE SortedBag(_, _)
SortedBag(u, S) ==
    IF S = {} THEN <<>>
    ELSE Repeat(SetMin(S), Occurrences(u, SetMin(S))) \o SortedBag(u, S \ {SetMin(S)})

\* C1: on a fresh UnionDocSet, repeated advance() reports each distinct doc id of
\* the children once, in strictly ascending order (doc() is the doc reported),
\* and returns false exactly when all of them were reported.
C1_UnionEmitsSortedDistinct ==
    (kind = "union" /\ trace.fresh) =>
        LET expected == SortedSeq(ChildDocs(ds.inner))
        IN  /\ IsPrefix(trace.docs, expected)
            /\ StrictlyIncreasing(trace.docs)
            /\ (res = "True" => UnionDoc(ds) = Last(trace.docs))
            /\ (res = "False" => trace.docs = expected)

\* A fresh union of three children, one doc in all three, run to exhaustion.
C1_Witness ==
    /\ kind = "union"
    /\ trace.fresh
    /\ res = "False"
    /\ Len(ds.inner.docsets) = 3
    /\ \E d \in Docs : Occurrences(ds.inner, d) = 3
    /\ Len(trace.docs) >= 2

\* C2: on a fresh UnionAllDocSet, repeated advance() reports the sorted multiset
\* union: non-decreasing, each doc once per child containing it, then false.
C2_UnionAllEmitsSortedBag ==
    (kind = "union_all" /\ trace.fresh) =>
        LET expected == SortedBag(ds, ChildDocs(ds))
        IN  /\ IsPrefix(trace.docs, expected)
            /\ NonDecreasing(trace.docs)
            /\ (res = "True" => UnionAllDoc(ds) = Last(trace.docs))
            /\ (res = "False" => trace.docs = expected)

\* A fresh union-all run to exhaustion that reported some doc three times.
C2_Witness ==
    /\ kind = "union_all"
    /\ trace.fresh
    /\ res = "False"
    /\ \E d \in Docs : Occurrences(ds, d) = 3 /\ Len(trace.docs) >= 4

\* C3: on a fresh DifferenceDocSet, repeated advance() reports exactly the docs
\* of left that are not in right, ascending, then false; docs of left beyond
\* the end of right are all reported.
C3_DifferenceEmitsLeftMinusRight ==
    (kind = "difference" /\ trace.fresh) =>
        LET expected == SortedSeq(Range(ds.left.ids) \ Range(ds.right.ids))
        IN  /\ IsPrefix(trace.docs, expected)
            /\ (res = "True" => DifferenceDoc(ds) = Last(trace.docs))
            /\ (res = "False" => trace.docs = expected)
            /\ (res = "False" /\ ds.right_finished =>
                    \A d \in Range(ds.left.ids) :
                        (\A r \in Range(ds.right.ids) : r < d) => d \in Range(trace.docs))

\* A fresh difference run to exhaustion: a doc of left was filtered out and a
\* doc of left beyond the last doc of right was reported after right ended.
C3_Witness ==
    /\ kind = "difference"
    /\ trace.fresh
    /\ res = "False"
    /\ ds.right_finished
    /\ Range(ds.left.ids) \cap Range(ds.right.ids) # {}
    /\ \E d \in Range(trace.docs) : \A r \in Range(ds.right.ids) : r < d
    /\ ds.right.ids # <<>>

\* The docs a DifferenceDocSet still has to report before the last operation:
\* those of left minus right beyond the doc it was on.
DifferenceRemaining ==
    {d \in Range(ds.left.ids) \ Range(ds.right.ids) : pre.doc = <<>> \/ d > pre.doc[1]}

\* C4: skip_next(t) on a DifferenceDocSet, t >= the current doc, gives what
\* advancing until the first reported doc >= t gives: Reached or OverStep with
\* doc() the smallest remaining doc of left minus right >= t (Reached iff it is
\* t), and End iff there is none.
C4_DifferenceSkipMatchesAdvance ==
    (/\ kind = "difference"
     /\ op = "skip_next"
     /\ pre.live
     /\ (pre.doc = <<>> \/ arg >= pre.doc[1])) =>
        LET cands == {d \in DifferenceRemaining : d >= arg}
        IN  /\ (res = "End") <=> (cands = {})
            /\ res \in {"Reached", "OverStep"} =>
                   /\ cands # {}
                   /\ VecValid(ds.left)
                   /\ DifferenceDoc(ds) = SetMin(cands)
                   /\ DifferenceDoc(ds) \notin Range(ds.right.ids)
                   /\ (res = "Reached") <=> (DifferenceDoc(ds) = arg)

\* C5: skip_next(t) on a UnionDocSet or UnionAllDocSet that is not exhausted, t
\* beyond the current doc: Reached with doc() = t iff a child contains t,
\* OverStep with doc() the smallest doc > t of any child iff none contains t and
\* some child has a doc > t, End iff no child has a doc >= t.
C5_UnionSkipNextResult ==
    (/\ kind \in {"union_all", "union"}
     /\ op = "skip_next"
     /\ pre.live
     /\ (pre.started => arg > pre.doc[1])) =>
        LET docs  == IF kind = "union" THEN ChildDocs(ds.inner) ELSE ChildDocs(ds)
            above == {d \in docs : d > arg}
        IN  /\ arg \in docs => res = "Reached" /\ CurDoc = <<arg>>
            /\ (arg \notin docs /\ above # {}) => res = "OverStep" /\ CurDoc = <<SetMin(above)>>
            /\ (arg \notin docs /\ above = {}) => res = "End"

\* A union that reported a doc by advance() and then overstepped a target
\* that no child contains.
C5_Witness ==
    /\ kind = "union"
    /\ op = "skip_next"
    /\ pre.live
    /\ pre.started
    /\ arg > pre.doc[1]
    /\ res = "OverStep"
    /\ arg \notin ChildDocs(ds.inner)
    /\ UnionDoc(ds) > arg

\* C6 as stated: for every DocSet implementation the docs reported by
\* successive advance() calls are strictly increasing.
C6_AllDocSetsStrictlyIncreasing ==
    trace.fresh => StrictlyIncreasing(trace.docs)

\* C6 amended: strictly increasing for UnionDocSet, DifferenceDocSet and
\* AllScorer; non-decreasing for UnionAllDocSet, which reports a doc once per
\* child containing it.
C6_DocSetOrdering ==
    trace.fresh =>
        IF kind = "union_all"
        THEN NonDecreasing(trace.docs)
        ELSE StrictlyIncreasing(trace.docs)

\* An AllScorer that reported three docs in a row.
C6_Witness ==
    /\ kind = "all"
    /\ trace.fresh
    /\ Len(trace.docs) >= 3
    /\ res = "True"

----------------------------------------------------------------------------
(* Facets: the encoded bytes of a facet are its steps joined by SEP_BYTE.  *)

SEP_BYTE == 31

\* The byte FacetCounts::facets appends to the root for the end of its range.
RANGE_END_BYTE == 1

Min2(a, b) == IF a <= b THEN a ELSE b

\* The order of byte strings (&[u8]), which is the order of a term dictionary.
BytesLess(a, b) ==
    \E i \in 1 .. Min2(Len(a), Len(b)) + 1 :
        /\ \A j \in 1 .. i - 1 : a[j] = b[j]
        /\ \/ i > Len(a) /\ i <= Len(b)
           \/ i <= Len(a) /\ i <= Len(b) /\ a[i] < b[i]

BytesLeq(a, b) == a = b \/ BytesLess(a, b)

\* Facet::is_root
IsRoot(facet) == facet = <<>>

\* f is facet r followed by a separator and further steps.
IsDescendant(f, r) ==
    /\ Len(f) > Len(r) + 1
    /\ SubSeq(f, 1, Len(r)) = r
    /\ f[Len(r) + 1] = SEP_BYTE

\* The facet dictionaries (ascending) of the segments a search may visit, over
\* /a, /a/a, /a/b, /ab and /b: a facet has different ordinals in different segments.
FacetDicts ==
    { << <<97>>, <<97, SEP_BYTE, 97>>, <<97, SEP_BYTE, 98>>, <<98>> >>,
      << <<97>>, <<97, SEP_BYTE, 98>>, <<97, 98>> >>,
      << <<97, SEP_BYTE, 97>>, <<98>> >> }

\* The roots a FacetCounts view is taken at.
Roots == { <<>>, <<97>>, <<98>> }

\* The most segments a search visits, (doc, facet ordinal) pairs it collects,
\* and facet ordinals a document has.
MaxSegments == 2

MaxHits == 3

MaxOrdsPerDoc == 2

----------------------------------------------------------------------------
(* FacetReader: the segment's facet dictionary; ordinals are 0-based       *)
(* positions in it.                                                        *)

FacetReader(dict) == [dict |-> dict]

NumFacets(reader) == Len(reader.dict)

\* The ordinal lists facet_ords(doc) may give for a doc of the segment.
DocOrdinals(reader) ==
    {SortedSeq(S) : S \in {T \in SUBSET (0 .. NumFacets(reader) - 1) :
                              Cardinality(T) >= 1 /\ Cardinality(T) <= MaxOrdsPerDoc}}

\* A stream over the dictionary's terms in [lo, hi), each with its ordinal;
\* hi = <<>> stands for no upper bound.
RangeStream(dict, lo, hi) ==
    LET inRange(k) == BytesLeq(lo, k) /\ (hi = <<>> \/ BytesLess(k, hi))
        ords == {o \in 0 .. Len(dict) - 1 : inRange(dict[o + 1])}
        sorted == SortedSeq(ords)
    IN  [i \in 1 .. Len(sorted) |-> [key |-> dict[sorted[i] + 1], term_ord |-> sorted[i]]]

----------------------------------------------------------------------------
(* TermMerger: merges the segments' streams, grouping equal keys.          *)
(* pos[s] is the entry stream s is on (0: before the first); current is    *)
(* the set of segment ordinals whose stream is on the merger's key (at     *)
(* first, all of them).                                                    *)

TermMergerNew(streams) ==
    [streams |-> streams, pos |-> [i \in DOMAIN streams |-> 0], current |-> DOMAIN streams]

\* Steps the streams of the last key's contributors (all of them at first),
\* then groups the streams on the least key.
TermMergerAdvance(m) ==
    LET pos == [i \in DOMAIN m.streams |-> IF i \in m.current THEN m.pos[i] + 1 ELSE m.pos[i]]
        live == {i \in DOMAIN m.streams : pos[i] <= Len(m.streams[i])}
        key(i) == m.streams[i][pos[i]].key
        heads == {i \in live : \A j \in live : BytesLeq(key(i), key(j))}
    IN  [m |-> [m EXCEPT !.pos = pos, !.current = heads], ok |-> live # {}]

TermMergerKey(m) ==
    LET i == CHOOSE j \in m.current : TRUE IN m.streams[i][m.pos[i]].key

\* current_kvs(): the contributors of the key, by segment ordinal.
CurrentKvs(m) ==
    LET segs == SortedSeq(m.current)
    IN  [n \in 1 .. Len(segs) |->
            [segment_ord |-> segs[n], term_ord |-> m.streams[segs[n]][m.pos[segs[n]]].term_ord]]

----------------------------------------------------------------------------
(* FacetCollector *)

FacetCollectorNew ==
    [ff_reader |-> <<>>, segment_counters |-> <<>>, current_segment_counts |-> <<>>]

\* Mutant: the sealed segment's counts stay in current_segment_counts.
FinalizeSegment_NoReset(c) ==
    IF c.ff_reader # <<>>
    THEN [c EXCEPT !.segment_counters =
                       Append(@, [facet_reader |-> c.ff_reader[1],
                                  facet_counts |-> c.current_segment_counts]),
                   !.ff_reader = <<>>]
    ELSE c

FinalizeSegment(c) ==
    IF c.ff_reader # <<>>
    THEN [c EXCEPT !.segment_counters =
                       Append(@, [facet_reader |-> c.ff_reader[1],
                                  facet_counts |-> c.current_segment_counts]),
                   !.ff_reader = <<>>,
                   !.current_segment_counts = <<>>]
    ELSE c

\* Vec::resize(n, 0)
Resize(v, n) ==
    IF Len(v) >= n THEN SubSeq(v, 1, n) ELSE v \o [i \in 1 .. n - Len(v) |-> 0]

SetSegment(c, reader) ==
    LET c1 == FinalizeSegment(c)
    IN  [c1 EXCEPT !.current_segment_counts = Resize(@, NumFacets(reader)),
                   !.ff_reader = <<reader>>]

\* Mutant: an ordinal is counted once per doc however often it occurs.
CountOrds_OncePerDoc(counts, ords) ==
    [i \in DOMAIN counts |-> counts[i] + (IF \E j \in DOMAIN ords : ords[j] = i - 1 THEN 1 ELSE 0)]

RECURSIVE CountOrds(_, _)
CountOrds(counts, ords) ==
    IF ords = <<>> THEN counts
    ELSE CountOrds([counts EXCEPT ![Head(ords) + 1] = @ + 1], Tail(ords))

Collect(c, ords) ==
    [c EXCEPT !.current_segment_counts = CountOrds(@, ords)]

Harvest(c) ==
    [segments_counts |-> FinalizeSegment(c).segment_counters, root |-> <<>>]

----------------------------------------------------------------------------
(* FacetCounts and FacetIterator *)

\* FacetCounts::root: the view of the same segment counters at another root.
FacetCountsRoot(fc, root) == [fc EXCEPT !.root = root]

\* FacetCounts::facets: one stream per segment, over [root, root + 0x01) for a
\* root other than the root facet, over the whole dictionary for the root facet.
Facets(fc) ==
    TermMergerNew(
        [i \in DOMAIN fc.segments_counts |->
            IF ~IsRoot(fc.root)
            THEN RangeStream(fc.segments_counts[i].facet_reader.dict,
                             fc.root, Append(fc.root, RANGE_END_BYTE))
            ELSE RangeStream(fc.segments_counts[i].facet_reader.dict, <<>>, <<>>)])

\* FacetCounts::vals: the segments' count vectors.
Vals(fc) == [i \in DOMAIN fc.segments_counts |-> fc.segments_counts[i].facet_counts]

FacetCountsIter(fc) == [facet_stream |-> Facets(fc), vals |-> Vals(fc)]

\* Mutant: the count of a key is that of its first contributor only.
SumKvs_FirstOnly(vals, kvs) ==
    IF kvs = <<>> THEN 0 ELSE vals[Head(kvs).segment_ord][Head(kvs).term_ord + 1]

RECURSIVE SumKvs(_, _)
SumKvs(vals, kvs) ==
    IF kvs = <<>> THEN 0
    ELSE vals[Head(kvs).segment_ord][Head(kvs).term_ord + 1] + SumKvs(vals, Tail(kvs))

\* Mutant: next() yields a key whatever its count (the count > 0 test is lost).
RECURSIVE FacetIteratorNext_NoZeroTest(_)
FacetIteratorNext_NoZeroTest(it) ==
    LET a   == TermMergerAdvance(it.facet_stream)
        it1 == [it EXCEPT !.facet_stream = a.m]
    IN  IF ~a.ok
        THEN [it |-> it1, item |-> <<>>]
        ELSE [it |-> it1,
              item |-> <<[facet |-> TermMergerKey(a.m),
                          count |-> SumKvs(it.vals, CurrentKvs(a.m))]>>]

\* Mutant: next() yields a key once per contributing segment: it steps only
\* the first contributor's stream before returning.
RECURSIVE FacetIteratorNext_PerContributor(_)
FacetIteratorNext_PerContributor(it) ==
    LET a   == TermMergerAdvance(it.facet_stream)
        one == IF a.m.current = {} THEN {} ELSE {SetMin(a.m.current)}
        it1 == [it EXCEPT !.facet_stream = [a.m EXCEPT !.current = one]]
    IN  IF ~a.ok
        THEN [it |-> it1, item |-> <<>>]
        ELSE LET count == SumKvs(it.vals, CurrentKvs(it1.facet_stream))
             IN  IF count > 0
                 THEN [it |-> it1, item |-> <<[facet |-> TermMergerKey(a.m), count |-> count]>>]
                 ELSE FacetIteratorNext_PerContributor(it1)

\* FacetIterator::next: [it, item], item <<>> for None and <<[facet, count]>>
\* for Some((facet, count)).
RECURSIVE FacetIteratorNext(_)
FacetIteratorNext(it) ==
    LET a   == TermMergerAdvance(it.facet_stream)
        it1 == [it EXCEPT !.facet_stream = a.m]
    IN  IF ~a.ok
        THEN [it |-> it1, item |-> <<>>]
        ELSE LET count == SumKvs(it.vals, CurrentKvs(a.m))
             IN  IF count > 0
                 THEN [it |-> it1, item |-> <<[facet |-> TermMergerKey(a.m), count |-> count]>>]
                 ELSE FacetIteratorNext(it1)

----------------------------------------------------------------------------
(* facet_depth and FacetIteratorWithDepth *)

\* The byte facet_depth counts.
DEPTH_SEP_BYTE == 0

\* facet_depth: 0 for no bytes, else the number of DEPTH_SEP_BYTE bytes plus one.
FacetDepth(facet_bytes) ==
    IF facet_bytes = <<>>
    THEN 0
    ELSE Cardinality({i \in DOMAIN facet_bytes : facet_bytes[i] = DEPTH_SEP_BYTE}) + 1

\* FacetCounts::with_depth; current_facet is <<>> for None, <<f>> for Some(f).
WithDepth(fc, depth) ==
    [facet_stream  |-> Facets(fc),
     vals          |-> Vals(fc),
     depth         |-> FacetDepth(fc.root) + depth,
     current_facet |-> <<>>,
     current_count |-> 0]

\* FacetIteratorWithDepth::next: [it, item]. A key of the target depth
\* replaces current_facet and current_count; the function returns the facet
\* replaced if there was one of non-zero count, and otherwise goes on to add
\* the key's count to current_count, as it does for the keys of other depths.
RECURSIVE FacetIteratorWithDepthNext(_)
FacetIteratorWithDepthNext(it) ==
    LET a   == TermMergerAdvance(it.facet_stream)
        it1 == [it EXCEPT !.facet_stream = a.m]
    IN  IF ~a.ok
        THEN [it   |-> [it1 EXCEPT !.current_facet = <<>>],
              item |-> IF it.current_facet = <<>>
                       THEN <<>>
                       ELSE <<[facet |-> it.current_facet[1], count |-> it.current_count]>>]
        ELSE LET bytes == TermMergerKey(a.m)
                 facet_count == SumKvs(it.vals, CurrentKvs(a.m))
             IN  IF FacetDepth(bytes) = it.depth
                 THEN LET it2 == [it1 EXCEPT !.current_facet = <<bytes>>,
                                             !.current_count = facet_count]
                      IN  IF it.current_facet # <<>> /\ it.current_count # 0
                          THEN [it |-> it2,
                                item |-> <<[facet |-> it.current_facet[1],
                                            count |-> it.current_count]>>]
                          ELSE FacetIteratorWithDepthNext(
                                   [it2 EXCEPT !.current_count = @ + facet_count])
                 ELSE FacetIteratorWithDepthNext(
                          [it1 EXCEPT !.current_count = @ + facet_count])

----------------------------------------------------------------------------
(* The facet collector's behaviour: a search visits segments and collects  *)
(* docs, harvest() gives the FacetCounts, a view is taken at a root and    *)
(* iterated to its end.                                                    *)

\* The DocSet variables while the behaviour drives the facet collector.
DocSetIdle ==
    /\ ds = <<>>
    /\ op = "new"
    /\ arg = 0
    /\ res = "None"
    /\ pre = [doc |-> <<>>, live |-> TRUE, started |-> FALSE]
    /\ trace = NoTrace

InitFacet ==
    /\ kind = "facet"
    /\ DocSetIdle
    /\ ObjIdle
    /\ collector = <<FacetCollectorNew>>
    /\ facet_counts = <<>>
    /\ facet_iter = <<>>
    /\ yielded = <<>>

RECURSIVE SumSeq(_)
SumSeq(v) == IF v = <<>> THEN 0 ELSE Head(v) + SumSeq(Tail(v))

\* The (doc, facet ordinal) pairs collected so far, over all segments.
Hits(c) ==
    SumSeq(c.current_segment_counts)
    + SumSeq([i \in DOMAIN c.segment_counters |-> SumSeq(c.segment_counters[i].facet_counts)])

SetSegmentStep ==
    /\ kind = "facet"
    /\ collector # <<>>
    /\ Len(FinalizeSegment(collector[1]).segment_counters) < MaxSegments
    /\ \E dict \in FacetDicts :
           collector' = <<SetSegment(collector[1], FacetReader(dict))>>
    /\ UNCHANGED <<kind, dsVars, facet_counts, facet_iter, yielded, objVars>>

\* collect() before any set_segment panics: the action models the calls that return.
CollectStep ==
    /\ kind = "facet"
    /\ collector # <<>>
    /\ collector[1].ff_reader # <<>>
    /\ \E ords \in DocOrdinals(collector[1].ff_reader[1]) :
           /\ Hits(collector[1]) + Len(ords) <= MaxHits
           /\ collector' = <<Collect(collector[1], ords)>>
    /\ UNCHANGED <<kind, dsVars, facet_counts, facet_iter, yielded, objVars>>

HarvestStep ==
    /\ kind = "facet"
    /\ collector # <<>>
    /\ facet_counts' = <<Harvest(collector[1])>>
    /\ collector' = <<>>
    /\ UNCHANGED <<kind, dsVars, facet_iter, yielded, objVars>>

RootStep ==
    /\ kind = "facet"
    /\ facet_counts # <<>>
    /\ facet_iter = <<>>
    /\ obj = <<>>
    /\ \E root \in Roots \ {facet_counts[1].root} :
           facet_counts' = <<FacetCountsRoot(facet_counts[1], root)>>
    /\ UNCHANGED <<kind, dsVars, collector, facet_iter, yielded, objVars>>

IterStep ==
    /\ kind = "facet"
    /\ facet_counts # <<>>
    /\ facet_iter = <<>>
    /\ obj = <<>>
    /\ facet_iter' = <<FacetCountsIter(facet_counts[1])>>
    /\ res' = "Iterating"
    /\ UNCHANGED <<kind, ds, op, arg, pre, trace, collector, facet_counts, yielded, objVars>>

\* One call of next(); res becomes "Done" when it returns None.
IterNextStep ==
    /\ kind = "facet"
    /\ facet_iter # <<>>
    /\ res = "Iterating"
    /\ LET n == FacetIteratorNext(facet_iter[1])
       IN  /\ facet_iter' = <<n.it>>
           /\ yielded' = yielded \o n.item
           /\ res' = IF n.item = <<>> THEN "Done" ELSE "Iterating"
    /\ UNCHANGED <<kind, ds, op, arg, pre, trace, collector, facet_counts, objVars>>

\* The depths with_depth is called with.
Deltas == {0, 1, 2}

\* with_depth(delta) on the view; obj is the iterator and what its last call
\* of next() returned, obs the items it yielded.
WithDepthStep ==
    /\ kind = "facet"
    /\ facet_counts # <<>>
    /\ facet_iter = <<>>
    /\ obj = <<>>
    /\ \E delta \in Deltas :
           obj' = <<[it |-> WithDepth(facet_counts[1], delta), delta |-> delta, last |-> "New"]>>
    /\ obs' = <<>>
    /\ UNCHANGED <<kind, dsVars, facetVars>>

WithDepthNextStep ==
    /\ kind = "facet"
    /\ obj # <<>>
    /\ obj[1].last # "None"
    /\ LET n == FacetIteratorWithDepthNext(obj[1].it)
       IN  /\ obj' = <<[obj[1] EXCEPT !.it = n.it,
                                     !.last = IF n.item = <<>> THEN "None" ELSE "Some"]>>
           /\ obs' = obs \o n.item
    /\ UNCHANGED <<kind, dsVars, facetVars>>

NextFacet ==
    \/ SetSegmentStep
    \/ CollectStep
    \/ HarvestStep
    \/ RootStep
    \/ IterStep
    \/ IterNextStep
    \/ WithDepthStep
    \/ WithDepthNextStep

SpecFacet == InitFacet /\ [][NextFacet]_vars

Init == InitDocSet \/ InitFacet

Next == NextDocSet \/ NextFacet

Spec == Init /\ [][Next]_vars

----------------------------------------------------------------------------
(* Claims about FacetCounts::iter *)

\* The sealed segments of the view under examination.
Segments == facet_counts[1].segments_counts

\* The facets of the segments' dictionaries.
SegmentFacets == UNION {Range(Segments[i].facet_reader.dict) : i \in DOMAIN Segments}

\* The segment's count of facet f: counts[local_ord], 0 if its dictionary lacks f.
SegmentCount(seg, f) ==
    LET dict == seg.facet_reader.dict
    IN  IF f \in Range(dict)
        THEN seg.facet_counts[CHOOSE n \in DOMAIN dict : dict[n] = f]
        ELSE 0

\* The aggregate count of facet f over the segments.
AggregateCount(f) == SumSeq([i \in DOMAIN Segments |-> SegmentCount(Segments[i], f)])

YieldedFacets == {yielded[i].facet : i \in DOMAIN yielded}

\* The facets in the range FacetCounts enumerates: every facet for the root
\* facet, [root, root + 0x01) otherwise.
InRange(f, root) ==
    IsRoot(root) \/ (BytesLeq(root, f) /\ BytesLess(f, Append(root, RANGE_END_BYTE)))

IterDone == kind = "facet" /\ facet_iter # <<>> /\ res = "Done"

\* C7: for a root r other than the root facet, root(r).iter() yields every
\* descendant of r (r, then 0x1F, then further steps) of non-zero aggregate
\* count, and no facet outside the subtree of r.
C7_RootIterYieldsDescendants ==
    (IterDone /\ ~IsRoot(facet_counts[1].root)) =>
        LET r == facet_counts[1].root
        IN  /\ \A f \in SegmentFacets :
                   (IsDescendant(f, r) /\ AggregateCount(f) > 0) => f \in YieldedFacets
            /\ \A f \in YieldedFacets : f = r \/ IsDescendant(f, r)

\* C8: the count of every yielded facet is the sum, over the segments whose
\* dictionary contains it, of that segment's counts[local ordinal].
C8_YieldedCountIsSegmentSum ==
    kind = "facet" =>
        \A i \in DOMAIN yielded : yielded[i].count = AggregateCount(yielded[i].facet)

\* A facet yielded with the counts of two segments, where its ordinals differ.
C8_Witness ==
    /\ kind = "facet"
    /\ \E i \in DOMAIN yielded :
          /\ yielded[i].count >= 2
          /\ Len(Segments) = 2
          /\ SegmentCount(Segments[1], yielded[i].facet) > 0
          /\ SegmentCount(Segments[2], yielded[i].facet) > 0
          /\ \E n \in DOMAIN Segments[1].facet_reader.dict :
                /\ Segments[1].facet_reader.dict[n] = yielded[i].facet
                /\ n \in DOMAIN Segments[2].facet_reader.dict
                /\ Segments[2].facet_reader.dict[n] # yielded[i].facet

C10_YieldedStrictlyAscending ==
    kind = "facet" =>
        \A i \in DOMAIN yielded : \A j \in DOMAIN yielded :
            i < j => BytesLess(yielded[i].facet, yielded[j].facet)

\* Two segments hold the same facet, yielded once among two or more facets.
C10_Witness ==
    /\ IterDone
    /\ Len(yielded) >= 2
    /\ Len(Segments) = 2
    /\ \E i \in DOMAIN yielded :
          /\ yielded[i].facet \in Range(Segments[1].facet_reader.dict)
          /\ yielded[i].facet \in Range(Segments[2].facet_reader.dict)

----------------------------------------------------------------------------
(* Claims about the sums of the counts *)

\* The sum of the aggregate counts of the facets of S.
RECURSIVE SumAggregate(_)
SumAggregate(S) ==
    IF S = {} THEN 0
    ELSE LET f == CHOOSE g \in S : TRUE IN AggregateCount(f) + SumAggregate(S \ {f})

\* f is r or has r as an ancestor (every facet has the root facet as ancestor).
InSubtree(f, r) == IsRoot(r) \/ f = r \/ IsDescendant(f, r)

\* The (collected doc, facet ordinal) events whose facet is in the subtree of
\* r: collect() adds one to counts[ord] per event.
SubtreeEvents(r) ==
    SumAggregate({f \in SegmentFacets : InSubtree(f, r)})

YieldedSum == SumSeq([i \in DOMAIN yielded |-> yielded[i].count])

\* C11: once root(r).iter() is exhausted, the sum of the counts it yielded is
\* the number of (collected doc, facet ordinal) events whose facet is r or has
\* r as an ancestor.
C11_IterSumIsSubtreeEvents ==
    IterDone => YieldedSum = SubtreeEvents(facet_counts[1].root)

\* The with_depth iteration came to its end.
WithDepthDone == kind = "facet" /\ obj # <<>> /\ obj[1].last = "None"

\* C12: every (f, count) that root(r).with_depth(delta) yields has count the
\* sum of the iter() counts (the aggregate counts) of f and of the descendants
\* of f, each once, and nothing else.
C12_WithDepthCountIsSubtreeSum ==
    (kind = "facet" /\ obj # <<>>) =>
        \A i \in DOMAIN obs :
            obs[i].count = SumAggregate({g \in SegmentFacets :
                                            g = obs[i].facet \/ IsDescendant(g, obs[i].facet)})

----------------------------------------------------------------------------
(* Facet values: Facet::from_path, Facet::from_str, Display, facet_depth.  *)
(* A string and a step are sequences of bytes.                             *)

SLASH_BYTE == 47

ESCAPE_BYTE == 92

\* The bytes steps and strings are made of: NUL, the separator, '/', '\' and 'a'.
StepBytes == {0, SEP_BYTE, SLASH_BYTE, ESCAPE_BYTE, 97}

\* The most bytes the steps of a path given to from_path have in all, and the
\* most bytes a string given to from_str has after its leading '/'.
MaxPathBytes == 3

MaxStrLen == 3

ByteStrings(n) == UNION {[1 .. k -> StepBytes] : k \in 0 .. n}

RECURSIVE Concat(_)
Concat(ss) == IF ss = <<>> THEN <<>> ELSE Head(ss) \o Concat(Tail(ss))

\* The path whose steps are the pieces of b cut after the positions of C.
PathOf(b, C) ==
    IF b = <<>> THEN <<>>
    ELSE LET ends == SortedSeq(C \cup {Len(b)})
         IN  [i \in 1 .. Len(ends) |->
                 SubSeq(b, IF i = 1 THEN 1 ELSE ends[i - 1] + 1, ends[i])]

\* The paths from_path is given: sequences of non-empty steps.
Paths ==
    UNION {{PathOf(b, C) : C \in SUBSET (1 .. Len(b) - 1)} : b \in ByteStrings(MaxPathBytes)}

\* The strings from_str is given: '/' and up to MaxStrLen bytes.
Strs == {<<SLASH_BYTE>> \o b : b \in ByteStrings(MaxStrLen)}

\* The outcome of a constructor: it panicked, or it returned the Facet of
\* these encoded bytes.
Panicked == [panic |-> TRUE, facet |-> <<>>]

Constructed(bytes) == [panic |-> FALSE, facet |-> bytes]

\* Facet::from_path: the steps as given, joined by SEP_BYTE.
FromPath(path) ==
    Constructed(Concat([i \in DOMAIN path |->
                           IF i = 1 THEN path[i] ELSE <<SEP_BYTE>> \o path[i]]))

\* The loop of from_str over the bytes after the first; escaped is State::Escaped.
RECURSIVE FromStrLoop(_, _, _)
FromStrLoop(bytes, escaped, facet_encoded) ==
    IF bytes = <<>> THEN facet_encoded
    ELSE LET c == Head(bytes)
         IN  IF escaped
             THEN FromStrLoop(Tail(bytes), FALSE, Append(facet_encoded, c))
             ELSE IF c = ESCAPE_BYTE
                  THEN FromStrLoop(Tail(bytes), TRUE, facet_encoded)
                  ELSE IF c = SLASH_BYTE
                       THEN FromStrLoop(Tail(bytes), FALSE, Append(facet_encoded, SEP_BYTE))
                       ELSE FromStrLoop(Tail(bytes), FALSE, Append(facet_encoded, c))

\* Facet::from_str: the assertion fails on a string containing the separator,
\* and path_bytes[1..] panics on the empty string.
FromStr(path) ==
    IF SEP_BYTE \in Range(path) \/ path = <<>>
    THEN Panicked
    ELSE Constructed(FromStrLoop(Tail(path), FALSE, <<>>))

\* slice::split on SEP_BYTE: one piece more than there are separators.
RECURSIVE SplitSep(_, _)
SplitSep(bytes, step) ==
    IF bytes = <<>> THEN <<step>>
    ELSE IF Head(bytes) = SEP_BYTE
         THEN <<step>> \o SplitSep(Tail(bytes), <<>>)
         ELSE SplitSep(Tail(bytes), Append(step, Head(bytes)))

\* escape_slashes: every match of [\\/] is replaced by the two bytes '\' '/'.
EscapeSlashes(s) ==
    Concat([i \in DOMAIN s |->
               IF s[i] \in {ESCAPE_BYTE, SLASH_BYTE} THEN <<ESCAPE_BYTE, SLASH_BYTE>> ELSE <<s[i]>>])

\* Facet::to_string (Display for Facet)
FacetToString(facet) ==
    LET steps == SplitSep(facet, <<>>)
    IN  Concat([i \in DOMAIN steps |-> <<SLASH_BYTE>> \o EscapeSlashes(steps[i])])

----------------------------------------------------------------------------
(* The behaviour of a facet value: a constructor is called with an input,  *)
(* then facet_depth or to_string is applied to the Facet it returned, and  *)
(* from_str to the string rendered. obj is the constructor call, obs the   *)
(* calls made so far with what they returned.                              *)

InitFacetValue ==
    /\ kind = "facet_value"
    /\ DocSetIdle
    /\ FacetIdle
    /\ \/ \E path \in Paths : obj = <<[call |-> "from_path", arg |-> path]>>
       \/ \E str \in Strs : obj = <<[call |-> "from_str", arg |-> str]>>
    /\ obs = <<>>

\* The Facet the constructor returned.
TheFacet == obs[1].ret.facet

HasFacet == obs # <<>> /\ ~obs[1].ret.panic

FromPathStep ==
    /\ kind = "facet_value"
    /\ obs = <<>>
    /\ obj[1].call = "from_path"
    /\ obs' = <<[call |-> "from_path", ret |-> FromPath(obj[1].arg)]>>
    /\ UNCHANGED <<kind, dsVars, facetVars, obj>>

\* from_str on the input, or on the string to_string rendered.
FromStrStep ==
    /\ kind = "facet_value"
    /\ \/ /\ obs = <<>>
          /\ obj[1].call = "from_str"
          /\ obs' = <<[call |-> "from_str", ret |-> FromStr(obj[1].arg)]>>
       \/ /\ obs # <<>>
          /\ Last(obs).call = "to_string"
          /\ obs' = Append(obs, [call |-> "from_str", ret |-> FromStr(Last(obs).ret)])
    /\ UNCHANGED <<kind, dsVars, facetVars, obj>>

ToStringStep ==
    /\ kind = "facet_value"
    /\ Len(obs) = 1
    /\ HasFacet
    /\ obs' = Append(obs, [call |-> "to_string", ret |-> FacetToString(TheFacet)])
    /\ UNCHANGED <<kind, dsVars, facetVars, obj>>

FacetDepthStep ==
    /\ kind = "facet_value"
    /\ Len(obs) = 1
    /\ HasFacet
    /\ obs' = Append(obs, [call |-> "facet_depth", ret |-> FacetDepth(TheFacet)])
    /\ UNCHANGED <<kind, dsVars, facetVars, obj>>

NextFacetValue ==
    \/ FromPathStep
    \/ FromStrStep
    \/ ToStringStep
    \/ FacetDepthStep

SpecFacetValue == InitFacetValue /\ [][NextFacetValue]_vars

----------------------------------------------------------------------------
(* Claims about facet values *)

\* The number of separators in encoded bytes b.
Separators(b) == Cardinality({i \in DOMAIN b : b[i] = SEP_BYTE})

\* No step of the path contains the separator or NUL.
ValidPath(path) == \A i \in DOMAIN path : Range(path[i]) \cap {0, SEP_BYTE} = {}

\* The Facet was made from steps free of the separator and of NUL.
FromValidSteps ==
    /\ HasFacet
    /\ 0 \notin Range(TheFacet)
    /\ obj[1].call = "from_path" => ValidPath(obj[1].arg)

\* C13: facet_depth(b) is 0 for the empty encoding, and otherwise the number
\* of 0x1F bytes of b plus one, for every encoded facet b.
C13_FacetDepthCountsSeparators ==
    (kind = "facet_value" /\ FromValidSteps /\ Last(obs).call = "facet_depth") =>
        Last(obs).ret = IF TheFacet = <<>> THEN 0 ELSE Separators(TheFacet) + 1

\* A step with a '\' put before each of its '/' and '\'.
Escaped(step) ==
    Concat([i \in DOMAIN step |->
               IF step[i] \in {ESCAPE_BYTE, SLASH_BYTE} THEN <<ESCAPE_BYTE, step[i]>> ELSE <<step[i]>>])

\* The string form of a path: "/" for no step, else each step after a '/'.
StringForm(path) ==
    IF path = <<>> THEN <<SLASH_BYTE>>
    ELSE Concat([i \in DOMAIN path |-> <<SLASH_BYTE>> \o Escaped(path[i])])

\* C15: for a facet f made of steps without 0x1F, to_string puts a '\' before
\* each '/' and each '\' of a step, and from_str(f.to_string()) is f.
C15_StringRoundTrip ==
    (/\ kind = "facet_value"
     /\ HasFacet
     /\ obj[1].call = "from_path"
     /\ \A i \in DOMAIN obj[1].arg : SEP_BYTE \notin Range(obj[1].arg[i])) =>
        /\ (Len(obs) >= 2 /\ obs[2].call = "to_string") => obs[2].ret = StringForm(obj[1].arg)
        /\ Len(obs) >= 3 => obs[3].ret = Constructed(TheFacet)

\* The input of the constructor has a step containing the separator or NUL.
InvalidInput ==
    IF obj[1].call = "from_path"
    THEN ~ValidPath(obj[1].arg)
    ELSE Range(obj[1].arg) \cap {0, SEP_BYTE} # {}

\* C16: from_path and from_str reject an input a step of which contains 0x1F
\* or 0x00, so that no step of a constructed Facet contains either.
C16_ConstructorsRejectSeparatorAndNul ==
    (kind = "facet_value" /\ obs # <<>>) =>
        /\ InvalidInput => obs[1].ret.panic
        /\ HasFacet => \A step \in Range(SplitSep(TheFacet, <<>>)) :
                            Range(step) \cap {0, SEP_BYTE} = {}

----------------------------------------------------------------------------
(* FacetTokenizer: the token stream over the encoded bytes of a facet.     *)

\* The byte FacetTokenStream::advance looks for.
TOKEN_SEP_BYTE == 31

\* The most bytes of a text given to the tokenizer.
MaxTextLen == 4

\* The texts: the encoded bytes from_path makes of steps over 'a' and 'b'
\* (empty steps included: from_path takes them).
Texts == UNION {[1 .. k -> {SEP_BYTE, 97, 98}] : k \in 0 .. MaxTextLen}

\* FacetTokenizer::token_stream; positions count bytes from 0 as in the code.
TokenStream(text) == [text |-> text, pos |-> 0, token |-> [term |-> <<>>]]

\* FacetTokenStream::advance: [ts, ret].
FacetTokenStreamAdvance(ts) ==
    LET bytes == ts.text
    IN  IF ts.pos = Len(bytes)
        THEN [ts |-> ts, ret |-> "False"]
        ELSE LET seps == {j \in ts.pos + 1 .. Len(bytes) - 1 : bytes[j + 1] = TOKEN_SEP_BYTE}
                 next_sep_pos == IF seps = {} THEN Len(bytes) ELSE SetMin(seps)
                 facet_prefix == SubSeq(bytes, ts.pos + 1, next_sep_pos)
             IN  [ts  |-> [ts EXCEPT !.pos = next_sep_pos, !.token.term = @ \o facet_prefix],
                  ret |-> "True"]

\* obj is the token stream with what its last advance() returned, obs the
\* terms of the tokens it was on after each advance() that returned true.
InitFacetTokenizer ==
    /\ kind = "facet_tokenizer"
    /\ DocSetIdle
    /\ FacetIdle
    /\ \E text \in Texts : obj = <<[ts |-> TokenStream(text), ret |-> "New"]>>
    /\ obs = <<>>

TokenAdvanceStep ==
    /\ kind = "facet_tokenizer"
    /\ obj[1].ret # "False"
    /\ LET a == FacetTokenStreamAdvance(obj[1].ts)
       IN  /\ obj' = <<a>>
           /\ obs' = IF a.ret = "True" THEN Append(obs, a.ts.token.term) ELSE obs
    /\ UNCHANGED <<kind, dsVars, facetVars>>

NextFacetTokenizer == TokenAdvanceStep

SpecFacetTokenizer == InitFacetTokenizer /\ [][NextFacetTokenizer]_vars

----------------------------------------------------------------------------
(* Claims about the facet tokenizer *)

\* The positions (from 1) of the separators of b, ascending.
SeparatorPositions(b) == SortedSeq({i \in DOMAIN b : b[i] = SEP_BYTE})

\* The prefixes of b ending just before each separator, then b itself.
AncestorPrefixes(b) ==
    LET seps == SeparatorPositions(b)
    IN  [i \in 1 .. Len(seps) + 1 |->
            IF i <= Len(seps) THEN SubSeq(b, 1, seps[i] - 1) ELSE b]

\* b encodes a facet of the string grammar: no empty step, or no step at all.
WellFormed(b) == b = <<>> \/ \A step \in Range(SplitSep(b, <<>>)) : step # <<>>

\* C14: over the encoded bytes b of a facet (the empty root encoding
\* included) the token stream emits k + 1 tokens, k the number of separators
\* of b: the prefix of b before each separator in turn, then b itself.
C14_TokenizerEmitsEveryPrefix ==
    (kind = "facet_tokenizer" /\ WellFormed(obj[1].ts.text)) =>
        /\ IsPrefix(obs, AncestorPrefixes(obj[1].ts.text))
        /\ obj[1].ret = "False" => obs = AncestorPrefixes(obj[1].ts.text)

----------------------------------------------------------------------------
(* FstMapBuilder: the file is the sequence of the items written, each at   *)
(* the offset bytes_written had; an FST block is the ascending sequence of *)
(* its (key, val) entries.                                                 *)

CACHE_SIZE == 2000000

\* The bytes of a serialized u32 (a block's length prefix, a value).
U32_BYTES == 4

\* The bytes an entry adds to a block's FST depend on its key: EntryBytes for
\* a key of odd byte and twice EntryBytes for a key of even byte, so that a
\* block exceeds CACHE_SIZE after one or two entries.
EntryBytes == 1000001

\* The keys are the one-byte strings <<1>> .. <<MaxKey>>.
MaxKey == 8

Keys == {<<k>> : k \in 1 .. MaxKey}

\* The values inserted.
Values == {34, 346}

FstBlockBuilderNew == <<>>

\* FstBlockBuilder::bytes_written
RECURSIVE BlockBytesWritten(_)
BlockBytesWritten(block) ==
    IF block = <<>> THEN 0
    ELSE EntryBytes * (2 - (Head(block).key[1] % 2)) + BlockBytesWritten(Tail(block))

\* fst::MapBuilder::insert accepts a key greater than the last one only.
BlockAccepts(block, key) == block = <<>> \/ BytesLess(Last(block).key, key)

BlockInsert(block, key, val) == Append(block, [key |-> key, val |-> val])

FstMapBuilderNew ==
    [counting_writer |-> [underlying_writer |-> <<>>, bytes_written |-> 0],
     block_stack     |-> <<FstBlockBuilderNew>>,
     last_key        |-> <<>>,
     panicked        |-> FALSE]

\* value.serialize(&mut counting_writer)
WriteValue(cw, value) ==
    [underlying_writer |-> Append(cw.underlying_writer,
                                  [addr |-> cw.bytes_written, type |-> "value",
                                   value |-> value, block |-> <<>>]),
     bytes_written     |-> cw.bytes_written + U32_BYTES]

\* (data.len() as u32).serialize(..) and write_all(&data)
WriteBlock(cw, data) ==
    [underlying_writer |-> Append(cw.underlying_writer,
                                  [addr |-> cw.bytes_written, type |-> "block",
                                   value |-> 0, block |-> data]),
     bytes_written     |-> cw.bytes_written + U32_BYTES + BlockBytesWritten(data)]

\* insert_key_addr; layers count from 0 as in the code.
RECURSIVE InsertKeyAddr(_, _, _, _)
InsertKeyAddr(b, layer_id, key, addr) ==
    LET stack == IF layer_id >= Len(b.block_stack)
                 THEN Append(b.block_stack, FstBlockBuilderNew)
                 ELSE b.block_stack
        block == stack[layer_id + 1]
    IN  IF BlockBytesWritten(block) <= CACHE_SIZE
        THEN IF BlockAccepts(block, key)
             THEN [b EXCEPT !.block_stack = [stack EXCEPT ![layer_id + 1] = BlockInsert(block, key, addr)]]
             ELSE [b EXCEPT !.block_stack = stack, !.panicked = TRUE]
        ELSE LET new_addr == b.counting_writer.bytes_written
             IN  InsertKeyAddr(
                     [b EXCEPT !.counting_writer = WriteBlock(@, block),
                               !.block_stack = [stack EXCEPT ![layer_id + 1] =
                                                   BlockInsert(FstBlockBuilderNew, key, addr)]],
                     layer_id + 1, key, new_addr)

\* FstMapBuilder::insert
FstMapBuilderInsert(b, key, value) ==
    LET val_addr == b.counting_writer.bytes_written
        b1 == InsertKeyAddr([b EXCEPT !.counting_writer = WriteValue(@, value)], 0, key, val_addr)
    IN  [b1 EXCEPT !.last_key = key]

\* The loop of finish over the blocks from the leaf level up: [b, previous].
RECURSIVE FinishLoop(_, _, _)
FinishLoop(b, i, previous_block_key_offset) ==
    IF i > Len(b.block_stack) \/ b.panicked
    THEN [b |-> b, previous |-> previous_block_key_offset]
    ELSE LET block == b.block_stack[i]
         IN  IF previous_block_key_offset # 0 /\ ~BlockAccepts(block, b.last_key)
             THEN [b |-> [b EXCEPT !.panicked = TRUE], previous |-> previous_block_key_offset]
             ELSE LET data == IF previous_block_key_offset # 0
                              THEN BlockInsert(block, b.last_key, previous_block_key_offset)
                              ELSE block
                  IN  FinishLoop([b EXCEPT !.counting_writer = WriteBlock(@, data)],
                                 i + 1, b.counting_writer.bytes_written)

\* FstMapBuilder::finish: it panicked, or the file written, footer included.
FstMapBuilderFinish(b) ==
    LET f == FinishLoop(b, 1, 0)
    IN  [panicked |-> f.b.panicked,
         items    |-> f.b.counting_writer.underlying_writer,
         footer   |-> [top_fst_offset |-> f.previous, depth |-> Len(b.block_stack) % 256]]

----------------------------------------------------------------------------
(* FstMap and CascadeStreamer *)

\* FstMap::from_source on the file a builder wrote (longer than its footer).
FstMapFromSource(file) ==
    [depth |-> file.footer.depth, source |-> file.items, top_fst_offset |-> file.footer.top_fst_offset]

\* read_fst: the entries of the block at start_offset.
ReadFst(source, start_offset) ==
    (CHOOSE i \in Range(source) : i.addr = start_offset /\ i.type = "block").block

\* FstMap::read_value
ReadValue(source, offset) ==
    (CHOOSE i \in Range(source) : i.addr = offset /\ i.type = "value").value

\* fst.range().ge(key).into_stream().next(): <<>> or the least entry >= key.
FstGe(fst, key) ==
    LET at == {n \in DOMAIN fst : BytesLeq(key, fst[n].key)}
    IN  IF at = {} THEN <<>> ELSE <<fst[SetMin(at)]>>

\* fst.get(key): <<>> or the val of key.
FstGet(fst, key) ==
    LET at == {n \in DOMAIN fst : fst[n].key = key}
    IN  IF at = {} THEN <<>> ELSE <<fst[SetMin(at)].val>>

\* The descent of get from the block at offset through the levels left.
RECURSIVE GetLoop(_, _, _, _)
GetLoop(map, key, offset, levels) ==
    IF levels = 0
    THEN LET found == FstGet(ReadFst(map.source, offset), key)
         IN  IF found = <<>> THEN <<>> ELSE <<ReadValue(map.source, found[1])>>
    ELSE LET e == FstGe(ReadFst(map.source, offset), key)
         IN  IF e = <<>> THEN <<>> ELSE GetLoop(map, key, e[1].val, levels - 1)

\* FstMap::get: <<>> for None, <<v>> for Some(v).
FstMapGet(map, key) ==
    IF map.depth = 0 THEN <<>> ELSE GetLoop(map, key, map.top_fst_offset, map.depth - 1)

\* CascadeStreamer::new and load_fst: the stream is before the first entry of
\* the block at offset; parent is <<>> for None, <<p>> for Some(p).
CascadeStreamerNew(source, offset, parent) ==
    [source |-> source, parent |-> parent, fst |-> ReadFst(source, offset), pos |-> 0,
     key |-> <<>>, value |-> 0]

LoadFst(st, offset) == [st EXCEPT !.fst = ReadFst(st.source, offset), !.pos = 0]

\* load_next: [st, ok]
LoadNext(st) ==
    IF st.pos < Len(st.fst)
    THEN [st |-> [st EXCEPT !.pos = @ + 1, !.key = st.fst[st.pos + 1].key,
                            !.value = st.fst[st.pos + 1].val],
          ok |-> TRUE]
    ELSE [st |-> st, ok |-> FALSE]

\* Mutant: at the end of a block next() returns None without asking the parent.
CascadeStreamerNext_NoParent(st) ==
    LET l == LoadNext(st)
    IN  IF l.ok
        THEN [st |-> l.st, item |-> <<[key |-> l.st.key, value |-> l.st.value]>>]
        ELSE [st |-> st, item |-> <<>>]

\* CascadeStreamer::next: [st, item], item <<>> for None.
RECURSIVE CascadeStreamerNext(_)
CascadeStreamerNext(st) ==
    LET l == LoadNext(st)
    IN  IF l.ok
        THEN [st |-> l.st, item |-> <<[key |-> l.st.key, value |-> l.st.value]>>]
        ELSE IF st.parent = <<>>
             THEN [st |-> st, item |-> <<>>]
             ELSE LET p   == CascadeStreamerNext(st.parent[1])
                      st1 == [st EXCEPT !.parent = <<p.st>>]
                  IN  IF p.item = <<>>
                      THEN [st |-> st1, item |-> <<>>]
                      ELSE LET l2 == LoadNext(LoadFst(st1, p.item[1].value))
                           IN  IF l2.ok
                               THEN [st |-> l2.st,
                                     item |-> <<[key |-> l2.st.key, value |-> l2.st.value]>>]
                               ELSE [st |-> l2.st, item |-> <<>>]

\* CascadeStreamer::read_with_depth, for depth >= 1 (a builder writes no other).
RECURSIVE ReadWithDepth(_, _, _)
ReadWithDepth(source, offset, depth) ==
    IF depth = 1
    THEN CascadeStreamerNew(source, offset, <<>>)
    ELSE LET n == CascadeStreamerNext(ReadWithDepth(source, offset, depth - 1))
         IN  CascadeStreamerNew(source, n.item[1].value, <<n.st>>)

\* FstMap::iter_kvs
IterKvs(map) == ReadWithDepth(map.source, map.top_fst_offset, map.depth)

----------------------------------------------------------------------------
(* The behaviour of a dictionary: keys are inserted in increasing order,   *)
(* finish() writes the file, the file is opened and either one key is      *)
(* looked up or the entries are streamed. obs is what get returned, or the *)
(* entries the stream emitted.                                             *)

InitFstMap ==
    /\ kind = "fstmap"
    /\ DocSetIdle
    /\ FacetIdle
    /\ obj = <<[stage |-> "building", builder |-> FstMapBuilderNew, inserted |-> <<>>,
                map |-> <<>>, streamer |-> <<>>]>>
    /\ obs = <<>>

FstInsertStep ==
    /\ kind = "fstmap"
    /\ obj[1].stage = "building"
    /\ \E key \in Keys, value \in Values :
          /\ BytesLess(obj[1].builder.last_key, key)
          /\ obj' = <<[obj[1] EXCEPT !.builder = FstMapBuilderInsert(@, key, value),
                                     !.inserted = Append(@, [key |-> key, value |-> value])]>>
    /\ UNCHANGED <<kind, dsVars, facetVars, obs>>

\* finish(), and from_source on the file when finish() returned it.
FstFinishStep ==
    /\ kind = "fstmap"
    /\ obj[1].stage = "building"
    /\ LET file == FstMapBuilderFinish(obj[1].builder)
       IN  obj' = <<[obj[1] EXCEPT !.stage = IF file.panicked THEN "panicked" ELSE "built",
                                  !.map = IF file.panicked THEN <<>>
                                          ELSE <<FstMapFromSource(file)>>]>>
    /\ UNCHANGED <<kind, dsVars, facetVars, obs>>

FstGetStep ==
    /\ kind = "fstmap"
    /\ obj[1].stage = "built"
    /\ \E key \in Keys :
          /\ obj' = <<[obj[1] EXCEPT !.stage = "got"]>>
          /\ obs' = <<[key |-> key, ret |-> FstMapGet(obj[1].map[1], key)]>>
    /\ UNCHANGED <<kind, dsVars, facetVars>>

FstIterKvsStep ==
    /\ kind = "fstmap"
    /\ obj[1].stage = "built"
    /\ obj' = <<[obj[1] EXCEPT !.stage = "streaming", !.streamer = <<IterKvs(obj[1].map[1])>>]>>
    /\ UNCHANGED <<kind, dsVars, facetVars, obs>>

FstStreamNextStep ==
    /\ kind = "fstmap"
    /\ obj[1].stage = "streaming"
    /\ LET n == CascadeStreamerNext(obj[1].streamer[1])
       IN  /\ obj' = <<[obj[1] EXCEPT !.streamer = <<n.st>>,
                                      !.stage = IF n.item = <<>> THEN "streamed" ELSE "streaming"]>>
           /\ obs' = obs \o n.item
    /\ UNCHANGED <<kind, dsVars, facetVars>>

NextFstMap ==
    \/ FstInsertStep
    \/ FstFinishStep
    \/ FstGetStep
    \/ FstIterKvsStep
    \/ FstStreamNextStep

SpecFstMap == InitFstMap /\ [][NextFstMap]_vars

----------------------------------------------------------------------------
(* Claims about the dictionary *)

\* The value inserted with key: <<>> if it was not inserted.
InsertedValue(key) ==
    LET at == {n \in DOMAIN obj[1].inserted : obj[1].inserted[n].key = key}
    IN  IF at = {} THEN <<>> ELSE <<obj[1].inserted[CHOOSE n \in at : TRUE].value>>

\* C17: after inserts in strictly increasing key order, whatever blocks and
\* levels they fill, finish() gives a dictionary whose get(k) is Some(v) for
\* every (k, v) inserted and None for every other key.
C17_GetReturnsInserted ==
    (kind = "fstmap" /\ obj[1].stage = "got") => obs[1].ret = InsertedValue(obs[1].key)

\* C18: iter_kvs() on a dictionary built from strictly increasing inserts
\* emits every inserted key once, ascending, and then returns None.
C18_StreamEmitsKeysInOrder ==
    (kind = "fstmap" /\ obj[1].stage \in {"streaming", "streamed"}) =>
        LET emitted  == [n \in DOMAIN obs |-> obs[n].key]
            expected == [n \in DOMAIN obj[1].inserted |-> obj[1].inserted[n].key]
        IN  /\ IsPrefix(emitted, expected)
            /\ obj[1].stage = "streamed" => emitted = expected

\* A dictionary of three levels streamed to its end.
C18_Witness ==
    /\ kind = "fstmap"
    /\ obj[1].stage = "streamed"
    /\ obj[1].map[1].depth >= 3
    /\ Len(obs) >= 4

----------------------------------------------------------------------------
(* CountingWriter over an underlying writer that may accept a buffer in    *)
(* part or fail. A buffer is given by its length; the underlying writer    *)
(* by the number of bytes it received.                                     *)

\* The most calls made on a writer and the most bytes of a buffer.
MaxCalls == 3

MaxBufLen == 2

\* CountingWriter::from
CountingWriterFrom(writer) == [underlying_writer |-> writer, bytes_written |-> 0]

\* What underlying_writer.write(buf) may do: fail and take nothing, or take
\* the first n bytes, 0 <= n <= buf.len().
UnderlyingWrite(writer, buf_len) ==
    {[writer |-> writer, ret |-> "Err", n |-> 0]}
    \cup {[writer |-> [writer EXCEPT !.received = @ + n], ret |-> "Ok", n |-> n] : n \in 0 .. buf_len}

\* Mutant: write() counts the whole buffer, whatever the underlying writer took.
CountingWriterWrite_CountsBuffer(cw, buf_len) ==
    {[cw  |-> IF u.ret = "Err" THEN [cw EXCEPT !.underlying_writer = u.writer]
              ELSE [cw EXCEPT !.underlying_writer = u.writer, !.bytes_written = @ + buf_len],
      ret |-> u.ret,
      n   |-> u.n] : u \in UnderlyingWrite(cw.underlying_writer, buf_len)}

\* Write::write for CountingWriter: the outcomes [cw, ret, n]; try! returns
\* the error before bytes_written is touched.
CountingWriterWrite(cw, buf_len) ==
    {[cw  |-> IF u.ret = "Err" THEN [cw EXCEPT !.underlying_writer = u.writer]
              ELSE [cw EXCEPT !.underlying_writer = u.writer, !.bytes_written = @ + u.n],
      ret |-> u.ret,
      n   |-> u.n] : u \in UnderlyingWrite(cw.underlying_writer, buf_len)}

\* Write::flush for CountingWriter: the underlying writer's flush, which
\* takes no bytes and may fail.
CountingWriterFlush(cw) == {[cw |-> cw, ret |-> r, n |-> 0] : r \in {"Ok", "Err"}}

\* CountingWriter::bytes_written
BytesWritten(cw) == cw.bytes_written

InitCountingWriter ==
    /\ kind = "counting_writer"
    /\ DocSetIdle
    /\ FacetIdle
    /\ obj = <<CountingWriterFrom([received |-> 0])>>
    /\ obs = <<>>

CountingWriteStep ==
    /\ kind = "counting_writer"
    /\ Len(obs) < MaxCalls
    /\ \E buf_len \in 0 .. MaxBufLen : \E o \in CountingWriterWrite(obj[1], buf_len) :
          /\ obj' = <<o.cw>>
          /\ obs' = Append(obs, [call |-> "write", buf_len |-> buf_len, ret |-> o.ret, n |-> o.n])
    /\ UNCHANGED <<kind, dsVars, facetVars>>

CountingFlushStep ==
    /\ kind = "counting_writer"
    /\ Len(obs) < MaxCalls
    /\ \E o \in CountingWriterFlush(obj[1]) :
          /\ obj' = <<o.cw>>
          /\ obs' = Append(obs, [call |-> "flush", buf_len |-> 0, ret |-> o.ret, n |-> 0])
    /\ UNCHANGED <<kind, dsVars, facetVars>>

NextCountingWriter ==
    \/ CountingWriteStep
    \/ CountingFlushStep

SpecCountingWriter == InitCountingWriter /\ [][NextCountingWriter]_vars

\* The sum of the counts the successful write calls returned.
ReturnedByWrites ==
    SumSeq([i \in DOMAIN obs |->
               IF obs[i].call = "write" /\ obs[i].ret = "Ok" THEN obs[i].n ELSE 0])

\* C19: after any sequence of write and flush calls bytes_written() is the
\* sum of the counts the successful writes returned (a partial write counts
\* what was accepted, a failed write and a flush nothing), which is the number
\* of bytes the underlying writer received.
C19_BytesWrittenIsSumOfWrites ==
    kind = "counting_writer" =>
        /\ BytesWritten(obj[1]) = ReturnedByWrites
        /\ BytesWritten(obj[1]) = obj[1].underlying_writer.received

\* A partial write, a failed write and a flush were made.
C19_Witness ==
    /\ kind = "counting_writer"
    /\ BytesWritten(obj[1]) > 0
    /\ \E i \in DOMAIN obs : obs[i].call = "write" /\ obs[i].ret = "Ok" /\ obs[i].n < obs[i].buf_len
    /\ \E i \in DOMAIN obs : obs[i].call = "write" /\ obs[i].ret = "Err" /\ obs[i].buf_len > 0
    /\ \E i \in DOMAIN obs : obs[i].call = "flush"

----------------------------------------------------------------------------
(* The multi-valued fast field: MultiValueIntFastFieldWriter and           *)
(* MultiValueIntFastFieldReader. A column is the sequence of the u64       *)
(* values written to it; a document is the sequence of the field's values. *)

\* The most documents added to a writer and the most values of a document.
MaxDocsAdded == 2

MaxValsPerDoc == 2

\* The values a document can hold for the field: two integers and a text
\* value, which add_document skips.
FieldValues == {[type |-> "U64", val |-> 5], [type |-> "U64", val |-> 7], [type |-> "Str", val |-> 0]}

Documents == UNION {[1 .. k -> FieldValues] : k \in 0 .. MaxValsPerDoc}

\* MultiValueIntFastFieldWriter::new
MultiValueWriterNew == [vals |-> <<>>, doc_index |-> <<>>]

\* MultiValueIntFastFieldWriter::next_doc
NextDoc(w) == [w EXCEPT !.doc_index = Append(@, Len(w.vals))]

\* The loop of add_document over the document's values.
RECURSIVE PushVals(_, _)
PushVals(vals, doc) ==
    IF doc = <<>> THEN vals
    ELSE PushVals(IF Head(doc).type = "U64" THEN Append(vals, Head(doc).val) ELSE vals, Tail(doc))

\* MultiValueIntFastFieldWriter::add_document: the values first, next_doc last.
MultiValueAddDocument(w, doc) == NextDoc([w EXCEPT !.vals = PushVals(@, doc)])

\* MultiValueIntFastFieldWriter::serialize: the one column it writes.
MultiValueSerialize(w) == w.vals

\* The readers over what the writer holds: the values column as serialized
\* and the index column as the writer's doc_index.
MultiValueReaderOpen(w) == [idx_reader |-> w.doc_index, vals_reader |-> MultiValueSerialize(w)]

\* U64FastFieldReader::get: the value at a position of the column; past the
\* column's end the read is outside the data and either fails or yields the
\* padding.
ColumnGet(col, i) ==
    IF i < Len(col) THEN {[panic |-> FALSE, val |-> col[i + 1]]}
    ELSE {[panic |-> TRUE, val |-> 0], [panic |-> FALSE, val |-> 0]}

\* The loop of get_vals over start..stop.
RECURSIVE ReadRange(_, _, _, _)
ReadRange(col, val_id, stop, acc) ==
    IF val_id >= stop THEN {[panicked |-> FALSE, vals |-> acc]}
    ELSE UNION {IF g.panic THEN {[panicked |-> TRUE, vals |-> <<>>]}
                ELSE ReadRange(col, val_id + 1, stop, Append(acc, g.val)) :
                g \in ColumnGet(col, val_id)}

\* MultiValueIntFastFieldReader::get_vals: the outcomes of the call.
GetVals(r, doc) ==
    UNION {IF start.panic \/ stop.panic THEN {[panicked |-> TRUE, vals |-> <<>>]}
           ELSE ReadRange(r.vals_reader, start.val, stop.val, <<>>) :
           <<start, stop>> \in ColumnGet(r.idx_reader, doc) \X ColumnGet(r.idx_reader, doc + 1)}

InitMultiValue ==
    /\ kind = "multivalue"
    /\ DocSetIdle
    /\ FacetIdle
    /\ obj = <<[stage |-> "writing", writer |-> MultiValueWriterNew, docs |-> <<>>, reader |-> <<>>]>>
    /\ obs = <<>>

MultiValueAddDocumentStep ==
    /\ kind = "multivalue"
    /\ obj[1].stage = "writing"
    /\ Len(obj[1].docs) < MaxDocsAdded
    /\ \E doc \in Documents :
          obj' = <<[obj[1] EXCEPT !.writer = MultiValueAddDocument(@, doc),
                                  !.docs = Append(@, doc)]>>
    /\ UNCHANGED <<kind, dsVars, facetVars, obs>>

MultiValueOpenStep ==
    /\ kind = "multivalue"
    /\ obj[1].stage = "writing"
    /\ obj[1].docs # <<>>
    /\ obj' = <<[obj[1] EXCEPT !.stage = "open", !.reader = <<MultiValueReaderOpen(obj[1].writer)>>]>>
    /\ UNCHANGED <<kind, dsVars, facetVars, obs>>

MultiValueGetValsStep ==
    /\ kind = "multivalue"
    /\ obj[1].stage \in {"open", "read"}
    /\ \E doc \in 0 .. Len(obj[1].docs) - 1 : \E ret \in GetVals(obj[1].reader[1], doc) :
          obs' = <<[doc |-> doc, ret |-> ret]>>
    /\ obj' = <<[obj[1] EXCEPT !.stage = "read"]>>
    /\ UNCHANGED <<kind, dsVars, facetVars>>

NextMultiValue ==
    \/ MultiValueAddDocumentStep
    \/ MultiValueOpenStep
    \/ MultiValueGetValsStep

SpecMultiValue == InitMultiValue /\ [][NextMultiValue]_vars

\* The integer values of a document, in the order they were added.
AddedVals(doc) == PushVals(<<>>, doc)

RECURSIVE StartOffsets(_, _)
StartOffsets(docs, offset) ==
    IF docs = <<>> THEN <<offset>>
    ELSE <<offset>> \o StartOffsets(Tail(docs), offset + Len(AddedVals(Head(docs))))

\* C21: after n add_document calls the index column has n + 1 entries, is
\* non-decreasing, idx[d] is the offset in vals of document d's first value
\* (idx[0] = 0) and the sentinel idx[n] is len(vals).
C21_IndexColumnIsStartOffsets ==
    (kind = "multivalue" /\ obj[1].docs # <<>>) =>
        /\ Len(obj[1].writer.doc_index) = Len(obj[1].docs) + 1
        /\ NonDecreasing(obj[1].writer.doc_index)
        /\ obj[1].writer.doc_index = StartOffsets(obj[1].docs, 0)

----------------------------------------------------------------------------
(* The document store: StoreWriter and the read path over what it wrote.   *)
(* A serialized document is its payload with its length in bytes; a block  *)
(* is the sequence of its length-prefixed entries; the file is the         *)
(* sequence of the compressed blocks, each at a byte offset. The writes to *)
(* the underlying file succeed.                                            *)

BLOCK_SIZE == 16384

\* The bytes of a serialized u32.
U32_LEN == 4

\* The most documents stored.
MaxStored == 4

\* The documents: a payload and the length of its serialized form.
StoredDocuments == [body : {"a", "b"}, num_bytes : {6000, 10000, 20000}]

\* bincode::serialize_into(&mut intermediary_buffer, stored_document)
BincodeSerialize(doc) == [doc_num_bytes |-> doc.num_bytes, bytes |-> doc.body]

\* The inverse read, bincode::deserialize.
BincodeDeserialize(entry) == [body |-> entry.bytes, num_bytes |-> entry.doc_num_bytes]

\* current_block.len(): each entry is a u32 length and the document's bytes.
RECURSIVE BlockLen(_)
BlockLen(block) ==
    IF block = <<>> THEN 0 ELSE U32_LEN + Head(block).doc_num_bytes + BlockLen(Tail(block))

\* The lz4 frame of a block: the block, and a length in bytes of its own.
Lz4Compress(block) == [num_bytes |-> (BlockLen(block) \div 2) + 1, block |-> block]

\* StoreWriter::new
StoreWriterNew ==
    [doc |-> 0, offset_index_writer |-> <<>>, writer |-> <<>>, written_bytes |-> 0, current_block |-> <<>>]

\* Mutant: the skip list records the offset at which the block starts.
WriteAndCompressBlock_OffsetBefore(w) ==
    LET compressed == Lz4Compress(w.current_block)
        written == w.written_bytes + U32_LEN + compressed.num_bytes
    IN  [w EXCEPT !.writer = Append(@, [offset |-> w.written_bytes, compressed |-> compressed]),
                  !.written_bytes = written,
                  !.offset_index_writer = Append(@, [key |-> w.doc, val |-> w.written_bytes]),
                  !.current_block = <<>>]

\* StoreWriter::write_and_compress_block
WriteAndCompressBlock(w) ==
    LET compressed == Lz4Compress(w.current_block)
        written == w.written_bytes + U32_LEN + compressed.num_bytes
    IN  [w EXCEPT !.writer = Append(@, [offset |-> w.written_bytes, compressed |-> compressed]),
                  !.written_bytes = written,
                  !.offset_index_writer = Append(@, [key |-> w.doc, val |-> written]),
                  !.current_block = <<>>]

\* StoreWriter::store
StoreWriterStore(w, stored_document) ==
    LET appended == [w EXCEPT !.current_block = Append(@, BincodeSerialize(stored_document)),
                              !.doc = @ + 1]
    IN  IF BlockLen(appended.current_block) > BLOCK_SIZE
        THEN WriteAndCompressBlock(appended)
        ELSE appended

\* StoreWriter::close: the file it leaves.
StoreWriterClose(w) ==
    LET flushed == IF w.current_block # <<>> THEN WriteAndCompressBlock(w) ELSE w
    IN  [blocks       |-> flushed.writer,
         offset_index |-> flushed.offset_index_writer,
         header_offset |-> flushed.written_bytes,
         num_docs     |-> flushed.doc]

\* The skip list lookup of the read path: the last entry whose key is at
\* most doc_id, the start of the file when there is none.
BlockOffset(offset_index, doc_id) ==
    LET before == {i \in DOMAIN offset_index : offset_index[i].key <= doc_id}
    IN  IF before = {} THEN [key |-> 0, val |-> 0]
        ELSE offset_index[CHOOSE i \in before : \A j \in before : j <= i]

\* The read of the compressed block at a byte offset of the file.
ReadBlock(store, offset) ==
    LET at == {i \in DOMAIN store.blocks : store.blocks[i].offset = offset}
    IN  IF at = {} THEN [ok |-> FALSE, block |-> <<>>]
        ELSE [ok |-> TRUE, block |-> store.blocks[CHOOSE i \in at : TRUE].compressed.block]

\* The entry of a block that starts at a byte position, <<>> when none does.
RECURSIVE EntryAt(_, _)
EntryAt(block, cursor) ==
    IF block = <<>> THEN <<>>
    ELSE IF cursor = 0 THEN <<Head(block)>>
    ELSE IF cursor < U32_LEN + Head(block).doc_num_bytes THEN <<>>
    ELSE EntryAt(Tail(block), cursor - (U32_LEN + Head(block).doc_num_bytes))

\* The walk over the length-prefixed entries: skip to_skip of them from
\* cursor and read the next one.
RECURSIVE WalkEntries(_, _, _)
WalkEntries(block, cursor, to_skip) ==
    LET entry == EntryAt(block, cursor)
    IN  IF entry = <<>> THEN [ok |-> FALSE, doc |-> <<>>]
        ELSE IF to_skip = 0 THEN [ok |-> TRUE, doc |-> <<BincodeDeserialize(entry[1])>>]
        ELSE WalkEntries(block, cursor + U32_LEN + entry[1].doc_num_bytes, to_skip - 1)

\* The read path for a document of the store.
StoreGet(store, doc_id) ==
    LET found == BlockOffset(store.offset_index, doc_id)
        read == ReadBlock(store, found.val)
    IN  IF ~read.ok THEN [ok |-> FALSE, doc |-> <<>>]
        ELSE WalkEntries(read.block, 0, doc_id - found.key)

InitStore ==
    /\ kind = "store"
    /\ DocSetIdle
    /\ FacetIdle
    /\ obj = <<[stage |-> "writing", writer |-> StoreWriterNew, stored |-> <<>>, store |-> <<>>]>>
    /\ obs = <<>>

StoreStep ==
    /\ kind = "store"
    /\ obj[1].stage = "writing"
    /\ Len(obj[1].stored) < MaxStored
    /\ \E stored_document \in StoredDocuments :
          obj' = <<[obj[1] EXCEPT !.writer = StoreWriterStore(@, stored_document),
                                  !.stored = Append(@, stored_document)]>>
    /\ UNCHANGED <<kind, dsVars, facetVars, obs>>

StoreCloseStep ==
    /\ kind = "store"
    /\ obj[1].stage = "writing"
    /\ obj' = <<[obj[1] EXCEPT !.stage = "closed", !.store = <<StoreWriterClose(obj[1].writer)>>]>>
    /\ UNCHANGED <<kind, dsVars, facetVars, obs>>

StoreGetStep ==
    /\ kind = "store"
    /\ obj[1].stage \in {"closed", "read"}
    /\ \E doc_id \in 0 .. obj[1].store[1].num_docs - 1 :
          obs' = <<[doc_id |-> doc_id, ret |-> StoreGet(obj[1].store[1], doc_id)]>>
    /\ obj' = <<[obj[1] EXCEPT !.stage = "read"]>>
    /\ UNCHANGED <<kind, dsVars, facetVars>>

NextStore ==
    \/ StoreStep
    \/ StoreCloseStep
    \/ StoreGetStep

SpecStore == InitStore /\ [][NextStore]_vars

\* C22: for any documents passed to store and then close, reading document i
\* through the read path returns the i-th stored document, in the first
\* block, in a later block and in the tail block.
C22_StoreRoundTrip ==
    (kind = "store" /\ obj[1].stage = "read") =>
        obs[1].ret = [ok |-> TRUE, doc |-> <<obj[1].stored[obs[1].doc_id + 1]>>]

\* A document was read from the tail block, the third block of the file, after
\* skipping an entry of that block.
C22_Witness ==
    /\ kind = "store"
    /\ obj[1].stage = "read"
    /\ Len(obj[1].store[1].blocks) >= 3
    /\ obj[1].writer.current_block # <<>>
    /\ obs[1].doc_id = obj[1].store[1].num_docs - 1
    /\ obs[1].doc_id > obj[1].store[1].offset_index[2].key
    /\ obs[1].ret.ok

----------------------------------------------------------------------------
(* InvertedIndexReader: the reader of one field's inverted index. The term *)
(* dictionary maps a term to its TermInfo; the postings and positions      *)
(* sources are addressed by offset.                                        *)

IndexRecordOptions == {"Basic", "WithFreqs", "WithFreqsAndPositions"}

\* The terms a dictionary can hold are 1 .. NumTerms.
NumTerms == 3

Terms == 1 .. NumTerms

\* The TermInfo the dictionary holds for a term.
TermInfoOf(term) ==
    [doc_freq |-> term, postings_offset |-> 8 * term,
     positions_offset |-> 16 * term, positions_inner_offset |-> term - 1]

\* IndexRecordOption::has_positions
HasPositions(option) == option = "WithFreqsAndPositions"

\* InvertedIndexReader::get_term_info: <<>> is None.
GetTermInfo(reader, term) ==
    IF term \in reader.termdict THEN <<TermInfoOf(term)>> ELSE <<>>

\* Mutant: the arm for a requested Basic is tried first.
FreqReadingOption_RequestedFirst(record_option, requested_option) ==
    IF requested_option = "Basic" THEN "SkipFreq"
    ELSE IF record_option = "Basic" THEN "NoFreq"
    ELSE "ReadFreq"

\* The match on (self.record_option, requested_option), arms in order.
FreqReadingOption(record_option, requested_option) ==
    IF record_option = "Basic" THEN "NoFreq"
    ELSE IF requested_option = "Basic" THEN "SkipFreq"
    ELSE "ReadFreq"

\* InvertedIndexReader::read_block_postings_from_terminfo
ReadBlockPostingsFromTerminfo(reader, term_info, requested_option) ==
    [doc_freq |-> term_info.doc_freq,
     postings_data |-> term_info.postings_offset,
     freq_reading_option |-> FreqReadingOption(reader.record_option, requested_option)]

\* InvertedIndexReader::read_postings_from_terminfo: position_stream is <<>>
\* for None.
ReadPostingsFromTerminfo(reader, term_info, option) ==
    [block_postings |-> ReadBlockPostingsFromTerminfo(reader, term_info, option),
     delete_bitset |-> reader.delete_bitset,
     position_stream |->
        IF HasPositions(option)
        THEN <<[positions_source |-> term_info.positions_offset,
                skipped |-> term_info.positions_inner_offset]>>
        ELSE <<>>]

\* InvertedIndexReader::read_postings: <<>> is None.
ReadPostings(reader, term, option) ==
    LET term_info == GetTermInfo(reader, term)
    IN  IF term_info = <<>> THEN <<>>
        ELSE <<ReadPostingsFromTerminfo(reader, term_info[1], option)>>

\* InvertedIndexReader::new over any dictionary and indexing option.
InitInvertedIndex ==
    /\ kind = "inverted_index"
    /\ DocSetIdle
    /\ FacetIdle
    /\ \E termdict \in SUBSET Terms : \E record_option \in IndexRecordOptions :
          obj = <<[termdict |-> termdict, record_option |-> record_option, delete_bitset |-> {}]>>
    /\ obs = <<>>

ReadBlockPostingsFromTerminfoStep ==
    /\ kind = "inverted_index"
    /\ \E term \in obj[1].termdict : \E option \in IndexRecordOptions :
          obs' = <<[call |-> "read_block_postings_from_terminfo", term |-> term, option |-> option,
                    ret |-> <<ReadBlockPostingsFromTerminfo(obj[1], TermInfoOf(term), option)>>]>>
    /\ UNCHANGED <<kind, dsVars, facetVars, obj>>

ReadPostingsFromTerminfoStep ==
    /\ kind = "inverted_index"
    /\ \E term \in obj[1].termdict : \E option \in IndexRecordOptions :
          obs' = <<[call |-> "read_postings_from_terminfo", term |-> term, option |-> option,
                    ret |-> <<ReadPostingsFromTerminfo(obj[1], TermInfoOf(term), option)>>]>>
    /\ UNCHANGED <<kind, dsVars, facetVars, obj>>

ReadPostingsStep ==
    /\ kind = "inverted_index"
    /\ \E term \in Terms : \E option \in IndexRecordOptions :
          obs' = <<[call |-> "read_postings", term |-> term, option |-> option,
                    ret |-> ReadPostings(obj[1], term, option)]>>
    /\ UNCHANGED <<kind, dsVars, facetVars, obj>>

NextInvertedIndex ==
    \/ ReadBlockPostingsFromTerminfoStep
    \/ ReadPostingsFromTerminfoStep
    \/ ReadPostingsStep

SpecInvertedIndex == InitInvertedIndex /\ [][NextInvertedIndex]_vars

\* The frequency mode the specification gives for (indexed, requested).
ExpectedFreqMode(indexed, requested) ==
    CASE indexed = "Basic" -> "NoFreq"
      [] indexed # "Basic" /\ requested = "Basic" -> "SkipFreq"
      [] OTHER -> "ReadFreq"

\* C23: read_block_postings_from_terminfo reads with NoFreq whenever the field
\* is indexed Basic, SkipFreq when the field indexes frequencies and Basic is
\* requested, ReadFreq in every other case; read_postings returns None iff the
\* term is absent from the term dictionary.
C23_FreqModeAndAbsentTerm ==
    (kind = "inverted_index" /\ obs # <<>>) =>
        /\ obs[1].call = "read_block_postings_from_terminfo" =>
              obs[1].ret[1].freq_reading_option = ExpectedFreqMode(obj[1].record_option, obs[1].option)
        /\ obs[1].call = "read_postings" =>
              /\ (obs[1].ret = <<>>) <=> (obs[1].term \notin obj[1].termdict)
              /\ obs[1].ret # <<>> =>
                    obs[1].ret[1].block_postings.freq_reading_option
                        = ExpectedFreqMode(obj[1].record_option, obs[1].option)

\* Frequencies were skipped on a field that indexes them.
C23_Witness ==
    /\ kind = "inverted_index"
    /\ obs # <<>>
    /\ obs[1].call = "read_block_postings_from_terminfo"
    /\ obj[1].record_option = "WithFreqsAndPositions"
    /\ obs[1].option = "Basic"
    /\ obs[1].ret[1].freq_reading_option = "SkipFreq"

\* C24: read_postings_from_terminfo attaches a position stream iff the
\* requested option has positions and the field was indexed with positions.
C24_PositionsOnlyWhenIndexed ==
    (kind = "inverted_index" /\ obs # <<>> /\ obs[1].call = "read_postings_from_terminfo") =>
        ((obs[1].ret[1].position_stream # <<>>)
            <=> (HasPositions(obs[1].option) /\ HasPositions(obj[1].record_option)))

----------------------------------------------------------------------------
(* The collector protocol: set_segment (which may fail), collect (which    *)
(* may panic) and harvest, with the log of the calls made.                 *)

\* The most set_segment and collect calls made on a collector.
MaxEvents == 4

\* Collector::set_segment for FacetCollector: reader_result is what
\* reader.facet_reader(field) returned, <<>> for an error.
FacetCollectorSetSegment(c, reader_result) ==
    IF reader_result = <<>>
    THEN [c |-> FinalizeSegment(c), ret |-> "Err"]
    ELSE [c |-> SetSegment(c, reader_result[1]), ret |-> "Ok"]

\* Mutant: collect without a reader returns without counting.
FacetCollectorCollect_Silent(c, ords) ==
    IF c.ff_reader = <<>>
    THEN [c |-> c, panicked |-> FALSE]
    ELSE [c |-> Collect(c, ords), panicked |-> FALSE]

\* Collector::collect for FacetCollector: expect() panics on a None ff_reader.
FacetCollectorCollect(c, ords) ==
    IF c.ff_reader = <<>>
    THEN [c |-> c, panicked |-> TRUE]
    ELSE [c |-> Collect(c, ords), panicked |-> FALSE]

\* The ordinal lists facet_ords(doc) may give the collector: those of
\* DocOrdinals, and an ordinal twice (a document given the same facet twice).
DocOrdinalLists(reader) ==
    DocOrdinals(reader) \cup {<<o, o>> : o \in 0 .. NumFacets(reader) - 1}

InitFacetCollector ==
    /\ kind = "facet_collector"
    /\ DocSetIdle
    /\ FacetIdle
    /\ obj = <<[stage |-> "collecting", collector |-> FacetCollectorNew, harvested |-> <<>>]>>
    /\ obs = <<>>

CollectorSetSegmentStep ==
    /\ kind = "facet_collector"
    /\ obj[1].stage = "collecting"
    /\ Len(obs) < MaxEvents
    /\ \E reader_result \in {<<>>} \cup {<<FacetReader(dict)>> : dict \in FacetDicts} :
          LET o == FacetCollectorSetSegment(obj[1].collector, reader_result)
          IN  /\ Len(o.c.segment_counters) + (IF o.ret = "Ok" THEN 1 ELSE 0) <= MaxSegments
              /\ obj' = <<[obj[1] EXCEPT !.collector = o.c]>>
              /\ obs' = Append(obs, [call |-> "set_segment", ret |-> o.ret,
                                     reader |-> reader_result, ords |-> <<>>])
    /\ UNCHANGED <<kind, dsVars, facetVars>>

CollectorCollectStep ==
    /\ kind = "facet_collector"
    /\ obj[1].stage = "collecting"
    /\ Len(obs) < MaxEvents
    /\ \E ords \in IF obj[1].collector.ff_reader = <<>> THEN {<<>>}
                   ELSE DocOrdinalLists(obj[1].collector.ff_reader[1]) :
          LET o == FacetCollectorCollect(obj[1].collector, ords)
          IN  /\ Hits(obj[1].collector) + Len(ords) <= MaxHits
              /\ obj' = <<[obj[1] EXCEPT !.collector = o.c,
                                         !.stage = IF o.panicked THEN "panicked" ELSE @]>>
              /\ obs' = Append(obs, [call |-> "collect", ret |-> IF o.panicked THEN "Panic" ELSE "Ok",
                                     reader |-> <<>>, ords |-> ords])
    /\ UNCHANGED <<kind, dsVars, facetVars>>

CollectorHarvestStep ==
    /\ kind = "facet_collector"
    /\ obj[1].stage = "collecting"
    /\ obj' = <<[obj[1] EXCEPT !.stage = "harvested", !.harvested = <<Harvest(obj[1].collector)>>]>>
    /\ UNCHANGED <<kind, dsVars, facetVars, obs>>

NextFacetCollector ==
    \/ CollectorSetSegmentStep
    \/ CollectorCollectStep
    \/ CollectorHarvestStep

SpecFacetCollector == InitFacetCollector /\ [][NextFacetCollector]_vars

\* The calls of set_segment in a log, and whether a segment is active after it.
SetSegmentCalls(log) == {i \in DOMAIN log : log[i].call = "set_segment"}

SegmentActive(log) ==
    /\ SetSegmentCalls(log) # {}
    /\ log[CHOOSE i \in SetSegmentCalls(log) : \A j \in SetSegmentCalls(log) : j <= i].ret = "Ok"

\* C25: collect with no segment active (before the first successful
\* set_segment, or after a set_segment that returned an error) panics and
\* updates no counter.
C25_CollectWithoutSegmentPanics ==
    [][(/\ kind = "facet_collector"
        /\ Len(obs') = Len(obs) + 1
        /\ obs'[Len(obs')].call = "collect"
        /\ ~SegmentActive(obs))
       => (/\ obs'[Len(obs')].ret = "Panic"
           /\ obj'[1].stage = "panicked"
           /\ obj'[1].collector = obj[1].collector)]_vars

\* collect panicked after a segment with counts was sealed by a set_segment
\* that failed.
C25_Witness ==
    /\ kind = "facet_collector"
    /\ obj[1].stage = "panicked"
    /\ Len(obs) >= 4
    /\ obs[Len(obs) - 1].call = "set_segment"
    /\ obs[Len(obs) - 1].ret = "Err"
    /\ obs[Len(obs) - 2].call = "collect"
    /\ obs[Len(obs) - 2].ret = "Ok"

\* A counts vector of n zeros.
Zeros(n) == [i \in 1 .. n |-> 0]

\* The number of occurrences of the ordinal o in the list ords.
OrdOccurrences(o, ords) == Cardinality({j \in DOMAIN ords : ords[j] = o})

\* The per-segment records a log of calls stands for: one record per
\* successful set_segment, counting the ordinals of the collect calls that
\* followed it.
RECURSIVE ExpectedRecords(_, _)
ExpectedRecords(log, records) ==
    IF log = <<>> THEN records
    ELSE LET e == Head(log)
             n == Len(records)
         IN  ExpectedRecords(Tail(log),
                 IF e.call = "set_segment" /\ e.ret = "Ok"
                 THEN Append(records, [facet_reader |-> e.reader[1],
                                       facet_counts |-> Zeros(NumFacets(e.reader[1]))])
                 ELSE IF e.call = "collect" /\ e.ret = "Ok"
                 THEN [records EXCEPT ![n].facet_counts =
                          [i \in DOMAIN @ |-> @[i] + OrdOccurrences(i - 1, e.ords)]]
                 ELSE records)

\* C29: for any sequence of set_segment and collect calls ended by harvest,
\* the FacetCounts holds exactly one record per successful set_segment, in call
\* order, with the counts of the collect calls made before the next
\* set_segment or harvest; every new segment starts with num_facets zeros.
C29_OneRecordPerSegment ==
    kind = "facet_collector" =>
        /\ obj[1].stage = "harvested" =>
              obj[1].harvested[1].segments_counts = ExpectedRecords(obs, <<>>)
        /\ (obs # <<>> /\ Last(obs).call = "set_segment" /\ Last(obs).ret = "Ok") =>
              obj[1].collector.current_segment_counts = Zeros(NumFacets(Last(obs).reader[1]))

\* Two segments with different dictionaries, each with documents collected,
\* were harvested.
C29_Witness ==
    /\ kind = "facet_collector"
    /\ obj[1].stage = "harvested"
    /\ Len(obj[1].harvested[1].segments_counts) = 2
    /\ \A i \in 1 .. 2 : SumSeq(obj[1].harvested[1].segments_counts[i].facet_counts) > 0
    /\ NumFacets(obj[1].harvested[1].segments_counts[1].facet_reader)
          > NumFacets(obj[1].harvested[1].segments_counts[2].facet_reader)

----------------------------------------------------------------------------
(* FstMapBuilder under inserts in any key order.                           *)

\* The most insert calls made on a builder.
MaxInserts == 3

InitFstBuilder ==
    /\ kind = "fst_builder"
    /\ DocSetIdle
    /\ FacetIdle
    /\ obj = <<[builder |-> FstMapBuilderNew, inserted |-> <<>>]>>
    /\ obs = <<>>

\* insert(key, value) with any key; obs is the call, the key inserted before
\* it and whether it panicked.
FstInsertAnyStep ==
    /\ kind = "fst_builder"
    /\ ~obj[1].builder.panicked
    /\ Len(obj[1].inserted) < MaxInserts
    /\ \E key \in Keys, value \in Values :
          LET b == FstMapBuilderInsert(obj[1].builder, key, value)
          IN  /\ obj' = <<[builder |-> b,
                           inserted |-> Append(obj[1].inserted, [key |-> key, value |-> value])]>>
              /\ obs' = <<[key |-> key,
                           previous |-> IF obj[1].inserted = <<>> THEN <<>>
                                        ELSE <<Last(obj[1].inserted).key>>,
                           leaf_bytes |-> BlockBytesWritten(obj[1].builder.block_stack[1]),
                           panicked |-> b.panicked]>>
    /\ UNCHANGED <<kind, dsVars, facetVars>>

NextFstBuilder == FstInsertAnyStep

SpecFstBuilder == InitFstBuilder /\ [][NextFstBuilder]_vars

\* C26: every insert whose key is not strictly greater than the previously
\* inserted key panics, whatever the fill state of the leaf block, also when
\* the insert makes the leaf block flush and start a fresh block.
C26_OutOfOrderInsertPanics ==
    (kind = "fst_builder" /\ obs # <<>> /\ obs[1].previous # <<>>
        /\ ~BytesLess(obs[1].previous[1], obs[1].key))
    => obs[1].panicked

----------------------------------------------------------------------------
(* Construction of the unions from any number of children.                 *)

\* The most children a union is constructed from.
MaxChildren == 3

\* Mutant: from() without the assert on the number of children.
UnionAllDocSetFrom_NoAssert(docsets) ==
    [panicked |-> FALSE, docset |-> <<UnionAllFrom(docsets)>>]

\* From<Vec<TDocSet>> for UnionAllDocSet, with its assert!(docsets.len() >= 2).
UnionAllDocSetFrom(docsets) ==
    IF Len(docsets) >= 2
    THEN [panicked |-> FALSE, docset |-> <<UnionAllFrom(docsets)>>]
    ELSE [panicked |-> TRUE, docset |-> <<>>]

\* From<Vec<TDocSet>> for UnionDocSet: the panic of UnionAllDocSet::from unwinds.
UnionDocSetFrom(docsets) ==
    LET inner == UnionAllDocSetFrom(docsets)
    IN  IF inner.panicked THEN inner
        ELSE [panicked |-> FALSE, docset |-> <<UnionFrom(docsets)>>]

InitDocSetFrom ==
    /\ kind = "docset_from"
    /\ DocSetIdle
    /\ FacetIdle
    /\ \E n \in 0 .. MaxChildren : \E c \in [1 .. n -> DocLists] :
       \E call \in {"UnionAllDocSet::from", "UnionDocSet::from"} :
          obj = <<[call |-> call, docsets |-> [i \in DOMAIN c |-> VecPostings(c[i])]]>>
    /\ obs = <<>>

UnionAllFromStep ==
    /\ kind = "docset_from"
    /\ obs = <<>>
    /\ obj[1].call = "UnionAllDocSet::from"
    /\ obs' = <<UnionAllDocSetFrom(obj[1].docsets)>>
    /\ UNCHANGED <<kind, dsVars, facetVars, obj>>

UnionFromStep ==
    /\ kind = "docset_from"
    /\ obs = <<>>
    /\ obj[1].call = "UnionDocSet::from"
    /\ obs' = <<UnionDocSetFrom(obj[1].docsets)>>
    /\ UNCHANGED <<kind, dsVars, facetVars, obj>>

NextDocSetFrom ==
    \/ UnionAllFromStep
    \/ UnionFromStep

SpecDocSetFrom == InitDocSetFrom /\ [][NextDocSetFrom]_vars

\* C27: constructing a UnionAllDocSet, and therefore a UnionDocSet, from fewer
\* than 2 children panics; from 2 or more children, any of which may be empty,
\* it succeeds.
C27_UnionNeedsTwoChildren ==
    (kind = "docset_from" /\ obs # <<>>) =>
        /\ obs[1].panicked <=> Len(obj[1].docsets) < 2
        /\ ~obs[1].panicked => obs[1].docset # <<>>

\* A UnionDocSet was constructed from two children, one of them empty.
C27_Witness ==
    /\ kind = "docset_from"
    /\ obs # <<>>
    /\ obj[1].call = "UnionDocSet::from"
    /\ Len(obj[1].docsets) = 2
    /\ obj[1].docsets[1].ids = <<>>
    /\ obj[1].docsets[2].ids # <<>>
    /\ ~obs[1].panicked

----------------------------------------------------------------------------
\* C28: exhaustion is permanent: once advance() has returned false or
\* skip_next() has returned End on a UnionAllDocSet, UnionDocSet or
\* DifferenceDocSet, every later advance() returns false and every later
\* skip_next() returns End, for any interleaving of the two operations.
C28_ExhaustionIsPermanent ==
    (kind \in {"union_all", "union", "difference"} /\ op # "new" /\ ~pre.live) =>
        /\ op = "advance" => res = "False"
        /\ op = "skip_next" => res = "End"

\* After a skip_next() that returned End, a later skip_next() to a doc id the
\* left child holds was called on a DifferenceDocSet.
C28_Witness ==
    /\ kind = "difference"
    /\ ~pre.live
    /\ op = "skip_next"
    /\ arg \in Range(ds.left.ids)
    /\ res = "End"

----------------------------------------------------------------------------
\* C30: with_depth(delta) never yields a bucket whose accumulated count is 0,
\* the last bucket, emitted when the merged facet stream is exhausted,
\* included.
C30_WithDepthYieldsNoZeroCount ==
    (kind = "facet" /\ obj # <<>>) => \A i \in DOMAIN obs : obs[i].count # 0

----------------------------------------------------------------------------
(* Claims about the skip list of the document store *)

\* The blocks written and the skip list entries recorded so far: those of the
\* closed store once close() has run, those of the writer before.
StoreBlocks == IF obj[1].store = <<>> THEN obj[1].writer.writer ELSE obj[1].store[1].blocks

StoreOffsetIndex ==
    IF obj[1].store = <<>> THEN obj[1].writer.offset_index_writer ELSE obj[1].store[1].offset_index

\* The number of documents in the blocks before the i-th, which is the doc id
\* of the first document of the i-th block.
FirstDocOfBlock(i) ==
    SumSeq([j \in 1 .. i - 1 |-> Len(StoreBlocks[j].compressed.block)])

\* The byte offset just after the i-th written block.
OffsetAfterBlock(i) == StoreBlocks[i].offset + U32_LEN + StoreBlocks[i].compressed.num_bytes

\* C32: each time a block is flushed (past 16 KiB or at close) the skip list
\* entry recorded has as key the doc id of the first document contained in
\* that block and as value the byte offset just after the written block.
C32_SkipEntryIsFirstDocOfBlock ==
    kind = "store" =>
        /\ Len(StoreOffsetIndex) = Len(StoreBlocks)
        /\ \A i \in DOMAIN StoreOffsetIndex :
              /\ StoreOffsetIndex[i].key = FirstDocOfBlock(i)
              /\ StoreOffsetIndex[i].val = OffsetAfterBlock(i)

\* C32, amended: the key recorded is the number of documents stored so far,
\* the doc id of the first document after the block; the value is the byte
\* offset just after the written block.
C32_SkipEntryIsFirstDocAfterBlock ==
    kind = "store" =>
        /\ Len(StoreOffsetIndex) = Len(StoreBlocks)
        /\ \A i \in DOMAIN StoreOffsetIndex :
              /\ StoreOffsetIndex[i].key = FirstDocOfBlock(i) + Len(StoreBlocks[i].compressed.block)
              /\ StoreOffsetIndex[i].val = OffsetAfterBlock(i)

\* A store was closed with a block flushed past 16 KiB that holds several
\* documents and a tail block flushed by close().
C32_Witness ==
    /\ kind = "store"
    /\ obj[1].stage = "closed"
    /\ Len(StoreOffsetIndex) >= 2
    /\ Len(StoreBlocks[1].compressed.block) >= 2
    /\ obj[1].writer.current_block # <<>>

----------------------------------------------------------------------------
(* A dictionary opened from a source shorter than its footer.              *)

\* The bytes of the footer: a u64 offset and a u8 depth.
FOOTER_LEN == 9

\* The greatest u8.
U8_MAX == 255

\* The sources opened have at most MaxShortLen bytes, fewer than the footer.
MaxShortLen == 4

ShortSources == UNION {[1 .. n -> {0, U8_MAX}] : n \in {m \in 0 .. MaxShortLen : m < FOOTER_LEN}}

\* FstMap::from_source on a source with total_len < 9: the empty source, depth
\* 0 and offset 0.
FstMapFromShortSource(source) == [depth |-> 0, source |-> <<>>, top_fst_offset |-> 0]

\* read_fst(..).unwrap() succeeds only where the source holds a block.
HasFst(source, start_offset) ==
    \E i \in Range(source) : i.addr = start_offset /\ i.type = "block"

\* CascadeStreamer::read_with_depth for any depth: [panicked, st]. depth - 1
\* on a u8 of 0 panics when overflow checks are compiled in and wraps to 255
\* when they are not; the unwrap()s of read_fst and of the parent's first
\* entry panic on what is missing. Every call recurses before anything else
\* and passes offset on unchanged, so the first thing to run is the innermost
\* call's read_fst at offset.
RECURSIVE ReadWithDepthChecked(_, _, _, _)
ReadWithDepthChecked(source, offset, depth, overflow_checks) ==
    IF depth = 0 /\ overflow_checks
    THEN [panicked |-> TRUE, st |-> <<>>]
    ELSE IF ~HasFst(source, offset)
    THEN [panicked |-> TRUE, st |-> <<>>]
    ELSE IF depth = 1
    THEN [panicked |-> FALSE, st |-> <<CascadeStreamerNew(source, offset, <<>>)>>]
    ELSE LET parent == ReadWithDepthChecked(source, offset,
                           IF depth = 0 THEN U8_MAX ELSE depth - 1, overflow_checks)
         IN  IF parent.panicked THEN [panicked |-> TRUE, st |-> <<>>]
             ELSE LET n == CascadeStreamerNext(parent.st[1])
                  IN  IF n.item = <<>> \/ ~HasFst(source, n.item[1].value)
                      THEN [panicked |-> TRUE, st |-> <<>>]
                      ELSE [panicked |-> FALSE,
                            st |-> <<CascadeStreamerNew(source, n.item[1].value, <<n.st>>)>>]

\* FstMap::iter_kvs on any dictionary.
IterKvsChecked(map, overflow_checks) ==
    ReadWithDepthChecked(map.source, map.top_fst_offset, map.depth, overflow_checks)

InitFstEmpty ==
    /\ kind = "fst_empty"
    /\ DocSetIdle
    /\ FacetIdle
    /\ \E source \in ShortSources :
          obj = <<[bytes |-> source, map |-> FstMapFromShortSource(source)]>>
    /\ obs = <<>>

FstEmptyGetStep ==
    /\ kind = "fst_empty"
    /\ \E key \in Keys :
          obs' = <<[call |-> "get", key |-> key, panicked |-> FALSE,
                    ret |-> FstMapGet(obj[1].map, key)]>>
    /\ UNCHANGED <<kind, dsVars, facetVars, obj>>

\* iter_kvs() and, when it returns a streamer, its first next().
FstEmptyIterKvsStep ==
    /\ kind = "fst_empty"
    /\ \E overflow_checks \in BOOLEAN :
          LET s == IterKvsChecked(obj[1].map, overflow_checks)
          IN  obs' = <<[call |-> "iter_kvs", key |-> <<>>, panicked |-> s.panicked,
                        ret |-> IF s.panicked THEN <<>> ELSE CascadeStreamerNext(s.st[1]).item]>>
    /\ UNCHANGED <<kind, dsVars, facetVars, obj>>

NextFstEmpty ==
    \/ FstEmptyGetStep
    \/ FstEmptyIterKvsStep

SpecFstEmpty == InitFstEmpty /\ [][NextFstEmpty]_vars

\* C33: a dictionary of depth 0 (from_source on a source shorter than the
\* 9-byte footer) behaves as the empty dictionary: get(k) returns None for
\* every key and iter_kvs() yields no entry and terminates, without panicking.
C33_DepthZeroIsEmptyDictionary ==
    (kind = "fst_empty" /\ obs # <<>>) =>
        /\ ~obs[1].panicked
        /\ obs[1].ret = <<>>

----------------------------------------------------------------------------
\* C38: finish() completes without panicking and writes a footer (top block
\* offset, depth) for every strictly increasing sequence of inserts, also when
\* the last insert before finish is the one that flushed a full block and
\* propagated its key to the next level.
C38_FinishNeverPanics ==
    kind = "fstmap" => obj[1].stage # "panicked"

----------------------------------------------------------------------------
(* A UnionAllDocSet under interleaved advance() and skip_next() calls,     *)
(* with the log of the calls that reported a doc. skip_next is called with *)
(* targets beyond the doc last reported (any target before the first       *)
(* report).                                                                *)

\* The children of the union: two lists (the least the constructor accepts).
ChildPairs == [1 .. Min2(2, MaxChildren) -> DocLists]

InitUnionAllReports ==
    /\ kind = "union_all_reports"
    /\ DocSetIdle
    /\ FacetIdle
    /\ \E c \in ChildPairs : obj = <<UnionAllFrom([i \in DOMAIN c |-> VecPostings(c[i])])>>
    /\ obs = <<>>

ReportsAdvanceStep ==
    /\ kind = "union_all_reports"
    /\ \E o \in UnionAllAdvance(obj[1]) :
          /\ obj' = <<o.ds>>
          /\ obs' = IF o.res = "True"
                    THEN Append(obs, [op |-> "advance", target |-> 0, doc |-> UnionAllDoc(o.ds)])
                    ELSE obs
    /\ UNCHANGED <<kind, dsVars, facetVars>>

ReportsSkipNextStep ==
    /\ kind = "union_all_reports"
    /\ \E target \in Targets : \E o \in UnionAllSkipNext(obj[1], target) :
          /\ obs # <<>> => target > Last(obs).doc
          /\ obj' = <<o.ds>>
          /\ obs' = IF o.res \in {"Reached", "OverStep"}
                    THEN Append(obs, [op |-> "skip_next", target |-> target, doc |-> UnionAllDoc(o.ds)])
                    ELSE obs
    /\ UNCHANGED <<kind, dsVars, facetVars>>

NextUnionAllReports ==
    \/ ReportsAdvanceStep
    \/ ReportsSkipNextStep

SpecUnionAllReports == InitUnionAllReports /\ [][NextUnionAllReports]_vars

\* C36: under any interleaving of advance() and skip_next() on a
\* UnionAllDocSet each doc id d is reported as the current doc (by an advance()
\* returning true or a skip_next() returning Reached or OverStep) at most as
\* many times as there are children that contain d.
C36_ReportsAtMostOncePerChild ==
    kind = "union_all_reports" =>
        \A d \in Docs :
            Cardinality({i \in DOMAIN obs : obs[i].doc = d}) <= Occurrences(obj[1], d)

----------------------------------------------------------------------------
(* Facet::prefixes against the facet tokenizer *)

\* Facet::prefixes: for each separator byte of the encoding, in order, the
\* bytes before it (self.0[0..pos], pos counted from 0), then the whole
\* encoding.
Prefixes(b) ==
    LET positions == SortedSeq({pos \in 0 .. Len(b) - 1 : b[pos + 1] = SEP_BYTE})
    IN  [i \in 1 .. Len(positions) |-> SubSeq(b, 1, positions[i])] \o <<b>>

\* C37: the tokens the facet tokenizer emits on a facet's encoded bytes are,
\* in number, content and order, the sequence Facet::prefixes returns for
\* that facet (the root included): the tokens emitted so far are a prefix of
\* it, and all of it once the stream has ended.
C37_TokensEqualPrefixes ==
    kind = "facet_tokenizer" =>
        /\ IsPrefix(obs, Prefixes(obj[1].ts.text))
        /\ obj[1].ret = "False" => obs = Prefixes(obj[1].ts.text)

\* The same over the facets with at least one step and no empty step.
C37_TokensEqualPrefixesOfStringFacets ==
    (kind = "facet_tokenizer" /\ WellFormed(obj[1].ts.text) /\ obj[1].ts.text # <<>>) =>
        /\ IsPrefix(obs, Prefixes(obj[1].ts.text))
        /\ obj[1].ret = "False" => obs = Prefixes(obj[1].ts.text)

----------------------------------------------------------------------------
(* The frame of FacetCollector::collect *)

\* C40: a collect(doc) that returns changes only the active segment's
\* counters: counts[o] grows by the number of occurrences of o in the doc's
\* ordinal list and the vector keeps its length, the reader and the sealed
\* segments are left alone; and no call ever modifies or removes the record
\* of a sealed segment (a later set_segment only appends to them).
C40_CollectFrame ==
    [][kind = "facet_collector" =>
        LET c == obj[1].collector
            d == obj'[1].collector
        IN  /\ IsPrefix(c.segment_counters, d.segment_counters)
            /\ (/\ Len(obs') = Len(obs) + 1
                /\ obs'[Len(obs')].call = "collect"
                /\ obs'[Len(obs')].ret = "Ok")
               => (/\ d.segment_counters = c.segment_counters
                   /\ d.ff_reader = c.ff_reader
                   /\ Len(d.current_segment_counts) = Len(c.current_segment_counts)
                   /\ \A i \in DOMAIN c.current_segment_counts :
                         d.current_segment_counts[i]
                            = c.current_segment_counts[i] + OrdOccurrences(i - 1, obs'[Len(obs')].ords))]_vars

\* A doc with the same ordinal twice was collected into the second segment,
\* after a first segment with counts was sealed.
C40_Witness ==
    /\ kind = "facet_collector"
    /\ Len(obs) >= 4
    /\ Last(obs).call = "collect"
    /\ Last(obs).ret = "Ok"
    /\ Len(Last(obs).ords) = 2
    /\ Last(obs).ords[1] = Last(obs).ords[2]
    /\ Len(obj[1].collector.segment_counters) = 1
    /\ SumSeq(obj[1].collector.segment_counters[1].facet_counts) > 0

----------------------------------------------------------------------------
(* TokenStreamChain: the concatenation of the token streams of a field's   *)
(* values. An inner stream is a list of tokens with a cursor (0: before    *)
(* the first token).                                                       *)

POSITION_GAP == 2

\* usize::max_value(), read modulo the width of usize: adding to it wraps.
USIZE_MAX == -1

\* The most token streams chained.
MaxStreams == 3

\* The distance between the offsets given for two successive streams.
OffsetStride == 10

\* The inner token at position p: its offsets are determined by p.
InnerToken(p) == [offset_from |-> 3 * p, offset_to |-> 3 * p + 2, position |-> p, term |-> "w"]

\* The position lists of the inner streams: non-decreasing, possibly empty,
\* not necessarily starting at 0 nor without holes (a filter removes tokens).
PositionLists == { <<>>, <<0>>, <<1>>, <<0, 1>>, <<0, 2>>, <<1, 1>> }

InnerStreams ==
    {[tokens |-> [j \in DOMAIN ps |-> InnerToken(ps[j])], cursor |-> 0] : ps \in PositionLists}

\* Token::default(): position is 0 or usize::max_value().
TokenDefaults ==
    {[offset_from |-> 0, offset_to |-> 0, position |-> p, term |-> ""] : p \in {0, USIZE_MAX}}

\* TokenStreamChain::new
TokenStreamChainNew(offsets, token_streams, default_token) ==
    [offsets |-> offsets, stream_idx |-> 0, token_streams |-> token_streams,
     position_shift |-> 0, token |-> default_token]

\* Mutant: the next stream starts right after the last position.
ShiftAfter_NoGap(position, overflow_checks) ==
    IF position < 0 /\ position + 1 >= 0 /\ overflow_checks
    THEN <<>>
    ELSE <<position + 1>>

\* self.token.position + POSITION_GAP on usize: <<>> for an overflow caught
\* by the build's overflow checks, else the wrapped sum.
ShiftAfter(position, overflow_checks) ==
    IF position < 0 /\ position + POSITION_GAP >= 0 /\ overflow_checks
    THEN <<>>
    ELSE <<position + POSITION_GAP>>

\* TokenStreamChain::advance: [c, ret], ret "True", "False" or "Panic"; the
\* stream index counts from 0 as in the code.
RECURSIVE TokenStreamChainAdvance(_, _)
TokenStreamChainAdvance(c, overflow_checks) ==
    IF c.stream_idx < Len(c.token_streams)
    THEN LET token_stream == c.token_streams[c.stream_idx + 1]
         IN  IF token_stream.cursor < Len(token_stream.tokens)
             THEN LET token == token_stream.tokens[token_stream.cursor + 1]
                      offset_offset == c.offsets[c.stream_idx + 1]
                  IN  [c   |-> [c EXCEPT !.token_streams[c.stream_idx + 1].cursor = @ + 1,
                                         !.token.offset_from = token.offset_from + offset_offset,
                                         !.token.position = token.position + c.position_shift,
                                         !.token.term = token.term],
                       ret |-> "True"]
             ELSE LET shift == ShiftAfter(c.token.position, overflow_checks)
                  IN  IF shift = <<>>
                      THEN [c |-> [c EXCEPT !.stream_idx = @ + 1], ret |-> "Panic"]
                      ELSE TokenStreamChainAdvance(
                               [c EXCEPT !.stream_idx = @ + 1, !.position_shift = shift[1]],
                               overflow_checks)
    ELSE [c |-> c, ret |-> "False"]

\* obj is the chain with the build's overflow checks and what its last
\* advance() returned; obs lists, for each advance() that returned true, the
\* stream the token came from (from 0), the inner token and the chain's token.
InitTokenStreamChain ==
    /\ kind = "token_stream_chain"
    /\ DocSetIdle
    /\ FacetIdle
    /\ \E n \in 1 .. MaxStreams, overflow_checks \in BOOLEAN, default_token \in TokenDefaults :
          \E token_streams \in [1 .. n -> InnerStreams] :
             obj = <<[chain |-> TokenStreamChainNew([i \in 1 .. n |-> (i - 1) * OffsetStride],
                                                    token_streams, default_token),
                      overflow_checks |-> overflow_checks,
                      ret |-> "New"]>>
    /\ obs = <<>>

ChainAdvanceStep ==
    /\ kind = "token_stream_chain"
    /\ obj[1].ret \in {"New", "True"}
    /\ LET o == TokenStreamChainAdvance(obj[1].chain, obj[1].overflow_checks)
       IN  /\ obj' = <<[obj[1] EXCEPT !.chain = o.c, !.ret = o.ret]>>
           /\ obs' = IF o.ret = "True"
                     THEN Append(obs, [stream |-> o.c.stream_idx,
                                       inner  |-> o.c.token_streams[o.c.stream_idx + 1]
                                                     .tokens[o.c.token_streams[o.c.stream_idx + 1].cursor],
                                       token  |-> o.c.token])
                     ELSE obs
    /\ UNCHANGED <<kind, dsVars, facetVars>>

NextTokenStreamChain == ChainAdvanceStep

SpecTokenStreamChain == InitTokenStreamChain /\ [][NextTokenStreamChain]_vars

C35_OffsetsShifted ==
    kind = "token_stream_chain" =>
        \A i \in DOMAIN obs :
            /\ obs[i].token.offset_from
                  = obs[i].inner.offset_from + obj[1].chain.offsets[obs[i].stream + 1]
            /\ obs[i].token.offset_to
                  = obs[i].inner.offset_to + obj[1].chain.offsets[obs[i].stream + 1]

\* The part of C35 about offset_from.
C35_OffsetFromShifted ==
    kind = "token_stream_chain" =>
        \A i \in DOMAIN obs :
            obs[i].token.offset_from
                = obs[i].inner.offset_from + obj[1].chain.offsets[obs[i].stream + 1]

----------------------------------------------------------------------------
(* UnionScorer and UnionAllScorer: a union DocSet over child scorers with  *)
(* a ScoreCombiner. A child scorer is a list-backed DocSet whose score()   *)
(* is determined by the child and the doc it is on; the combiner is the    *)
(* list of the scores given to update() since the last clear().            *)

\* TScorer::score of child ord: its score for the doc it is on (<<>> when it
\* is on none, being exhausted).
ChildScore(docsets, ord) ==
    [ord |-> ord, doc |-> IF VecValid(docsets[ord]) THEN <<VecDoc(docsets[ord])>> ELSE <<>>]

\* score_combiner.clear() followed by update(scorer.score()) for every
\* scorer of inner.docsets(), in order.
CombineScores(docsets) == [ord \in DOMAIN docsets |-> ChildScore(docsets, ord)]

\* inner.docsets() of the scorer sc.
ScorerDocsets(sc) == IF sc.scorer = "union" THEN sc.inner.inner.docsets ELSE sc.inner.docsets

\* doc() of the scorer sc.
ScorerDoc(sc) == IF sc.scorer = "union" THEN UnionDoc(sc.inner) ELSE UnionAllDoc(sc.inner)

\* UnionScorer::from and UnionAllScorer::from.
ScorerFrom(scorer, scorers) ==
    [scorer |-> scorer,
     inner |-> IF scorer = "union" THEN UnionFrom(scorers) ELSE UnionAllFrom(scorers),
     score_combiner |-> <<>>]

\* advance() of either scorer: the set of [sc, res].
ScorerAdvance(sc) ==
    {[sc  |-> IF a.res = "False"
              THEN [sc EXCEPT !.inner = a.ds]
              ELSE [sc EXCEPT !.inner = a.ds,
                              !.score_combiner = CombineScores(ScorerDocsets([sc EXCEPT !.inner = a.ds]))],
      res |-> a.res]
     : a \in IF sc.scorer = "union" THEN UnionAdvance(sc.inner) ELSE UnionAllAdvance(sc.inner)}

\* skip_next(target) of either scorer: the set of [sc, res].
ScorerSkipNext(sc, target) ==
    {[sc  |-> IF s.res = "Reached"
              THEN [sc EXCEPT !.inner = s.ds,
                              !.score_combiner = CombineScores(ScorerDocsets([sc EXCEPT !.inner = s.ds]))]
              ELSE [sc EXCEPT !.inner = s.ds],
      res |-> s.res]
     : s \in IF sc.scorer = "union" THEN UnionSkipNext(sc.inner, target)
             ELSE UnionAllSkipNext(sc.inner, target)}

\* obj is the scorer; obs holds the last call made on it with its result.
InitScorer ==
    /\ kind = "scorer"
    /\ DocSetIdle
    /\ FacetIdle
    /\ \E scorer \in {"union", "union_all"}, c \in ChildPairs :
          obj = <<ScorerFrom(scorer, [i \in DOMAIN c |-> VecPostings(c[i])])>>
    /\ obs = <<>>

ScorerAdvanceStep ==
    /\ kind = "scorer"
    /\ \E o \in ScorerAdvance(obj[1]) :
          /\ obj' = <<o.sc>>
          /\ obs' = <<[op |-> "advance", target |-> 0, res |-> o.res]>>
    /\ UNCHANGED <<kind, dsVars, facetVars>>

\* skip_next is called on a scorer that is on a doc or was not advanced yet,
\* with a target beyond the doc it is on.
ScorerSkipNextStep ==
    /\ kind = "scorer"
    /\ obs # <<>> => obs[1].res \in {"True", "Reached", "OverStep"}
    /\ \E target \in Targets : \E o \in ScorerSkipNext(obj[1], target) :
          /\ obs # <<>> => target > ScorerDoc(obj[1])
          /\ obj' = <<o.sc>>
          /\ obs' = <<[op |-> "skip_next", target |-> target, res |-> o.res]>>
    /\ UNCHANGED <<kind, dsVars, facetVars>>

NextScorer ==
    \/ ScorerAdvanceStep
    \/ ScorerSkipNextStep

SpecScorer == InitScorer /\ [][NextScorer]_vars

\* C31: after every advance() that returned true and every skip_next() that
\* returned Reached or OverStep, the combined score is the one computed from
\* the children as they are now, not one computed for a previous doc.
C31_ScoreRecomputedOnDocChange ==
    (kind = "scorer" /\ obs # <<>> /\ obs[1].res \in {"True", "Reached", "OverStep"}) =>
        obj[1].score_combiner = CombineScores(ScorerDocsets(obj[1]))

\* The part of C31 about advance() and a Reached skip_next().
C31_ScoreRecomputedOnAdvanceAndReached ==
    (kind = "scorer" /\ obs # <<>> /\ obs[1].res \in {"True", "Reached"}) =>
        obj[1].score_combiner = CombineScores(ScorerDocsets(obj[1]))

\* C39: after UnionScorer.advance() returned true the combined score holds
\* one score per child that contains doc(), taken while that child is on
\* doc(), and nothing from the other children.
C39_OnlyChildrenOnDocContribute ==
    (kind = "scorer" /\ obj[1].scorer = "union" /\ obs # <<>>
        /\ obs[1].op = "advance" /\ obs[1].res = "True") =>
        LET docsets == ScorerDocsets(obj[1])
            doc == ScorerDoc(obj[1])
        IN  Range(obj[1].score_combiner)
               = {[ord |-> i, doc |-> <<doc>>] : i \in {j \in DOMAIN docsets : doc \in Range(docsets[j].ids)}}

====
